---- MODULE Spec2Model ----
(***************************************************************************)
(* Verification model of the inter-rater reliability engine of             *)
(* Scripts/irr_calculator.py (class IRRCalculator).                        *)
(*                                                                         *)
(* Python values are represented as follows.                               *)
(*   - A normalised rating (the result of _normalize_value) is an          *)
(*     optional integer: None is the empty tuple <<>>, the integer v is    *)
(*     the one-element tuple <<v>>.                                        *)
(*   - A float result of a statistic is a record [k, n, d]: k = "None" is  *)
(*     Python's None, k = "nan" is float('nan'), and k = "val" is the      *)
(*     exact rational n/d in lowest terms with d > 0.  Floating-point      *)
(*     rounding is not modelled: arithmetic is exact.                      *)
(***************************************************************************)
EXTENDS Integers, Sequences, FiniteSets, TLC

VARIABLES
    value_lists,      \* the rater columns handed to a statistic function
    result,           \* [fn, out]: the last statistic call and what it returned
    claude_results,   \* run_analysis: coder1_results, platform_id -> (variable -> raw value)
    chatgpt_results,  \* run_analysis: coder2_results
    human_results,    \* run_analysis: human_results (empty when human_dir is not given)
    human_dir,        \* run_analysis: whether a human directory was given and exists
    analysis          \* what run_analysis returned ([kind |-> "none"] before it ran)

vars == <<value_lists, result, claude_results, chatgpt_results, human_results,
          human_dir, analysis>>

(***************************************************************************)
(* Bounds of the model.                                                    *)
(***************************************************************************)
MaxLen == 3
MaxRows == 3
MaxPartial == 1
NumPlatforms == 3
NumPlatformsPair == 2

\* ------------------------------------------------------------------------
\* Optional integers (ratings)
\* ------------------------------------------------------------------------
None == <<>>
Some(v) == <<v>>
IsNone(x) == x = <<>>
Val(x) == x[1]

Min2(a, b) == IF a <= b THEN a ELSE b
Abs(x) == IF x < 0 THEN -x ELSE x

RECURSIVE GCD(_, _)
GCD(a, b) == IF b = 0 THEN a ELSE GCD(b, a % b)

\* ------------------------------------------------------------------------
\* Floats: None, nan, or an exact rational
\* ------------------------------------------------------------------------
FNone == [k |-> "None", n |-> 0, d |-> 1]
FNaN == [k |-> "nan", n |-> 0, d |-> 1]
Q(a, b) ==
    LET g == GCD(Abs(a), Abs(b))
        s == IF b < 0 THEN -1 ELSE 1
    IN  [k |-> "val", n |-> (s * a) \div g, d |-> (s * b) \div g]
IsVal(x) == x.k = "val"
QAdd(x, y) == Q(x.n * y.d + y.n * x.d, x.d * y.d)
QSub(x, y) == Q(x.n * y.d - y.n * x.d, x.d * y.d)
QMul(x, y) == Q(x.n * y.n, x.d * y.d)
QDiv(x, y) == Q(x.n * y.d, x.d * y.n)
QLe(x, y) == x.n * y.d <= y.n * x.d
QLt(x, y) == x.n * y.d < y.n * x.d
QSq(x) == QMul(x, x)
QInt(i) == Q(i, 1)

RECURSIVE QSum(_)
QSum(s) == IF s = <<>> THEN QInt(0) ELSE QAdd(Head(s), QSum(Tail(s)))

\* np.mean of a non-empty list of floats
np_mean(s) == QDiv(QSum(s), QInt(Len(s)))

\* the elements of s that satisfy Keep, in order (a list comprehension with an if)
RECURSIVE SelectIdx(_, _, _)
SelectIdx(s, keep, i) ==
    IF i > Len(s) THEN <<>>
    ELSE (IF keep[i] THEN <<s[i]>> ELSE <<>>) \o SelectIdx(s, keep, i + 1)

\* sorted(set(...)) of a set of integers
RECURSIVE SortedSeq(_)
SortedSeq(S) ==
    IF S = {} THEN <<>>
    ELSE LET m == CHOOSE x \in S : \A y \in S : x <= y
         IN  <<m>> \o SortedSeq(S \ {m})

\* ------------------------------------------------------------------------
\* valid pairs: [(v1, v2) for v1, v2 in zip(values1, values2)
\*               if v1 is not None and v2 is not None]
\* ------------------------------------------------------------------------
valid_pairs(values1, values2) ==
    LET m == Min2(Len(values1), Len(values2))
        z == [i \in 1..m |-> <<values1[i], values2[i]>>]
    IN  SelectIdx(z, [i \in 1..m |-> ~IsNone(values1[i]) /\ ~IsNone(values2[i])], 1)

n_matches(pairs) == Cardinality({i \in 1..Len(pairs) : pairs[i][1] = pairs[i][2]})


\* mutant: no valid pair reported as agreement 0 instead of None
calculate_agreement_zero(values1, values2) ==
    LET vp == valid_pairs(values1, values2)
    IN  IF Len(vp) = 0 THEN QInt(0)
        ELSE Q(n_matches(vp), Len(vp))

\* mutant: the denominator counts every subject the first rater coded
calculate_agreement_rater1(values1, values2) ==
    LET vp == valid_pairs(values1, values2)
        coded1 == Cardinality({i \in 1..Len(values1) : ~IsNone(values1[i])})
    IN  IF Len(vp) = 0 THEN FNone
        ELSE Q(n_matches(vp), coded1)

calculate_agreement(values1, values2) ==
    LET vp == valid_pairs(values1, values2)
    IN  IF Len(vp) = 0 THEN FNone
        ELSE Q(n_matches(vp), Len(vp))

\* sum of an integer-valued / float-valued function over a finite subset of its domain
RECURSIVE SumF(_, _)
SumF(f, S) ==
    IF S = {} THEN 0
    ELSE LET x == CHOOSE y \in S : TRUE IN f[x] + SumF(f, S \ {x})

RECURSIVE QSumF(_, _)
QSumF(f, S) ==
    IF S = {} THEN QInt(0)
    ELSE LET x == CHOOSE y \in S : TRUE IN QAdd(f[x], QSumF(f, S \ {x}))

Range(s) == {s[i] : i \in 1..Len(s)}

\* ------------------------------------------------------------------------
\* Cohen's Kappa.  sklearn.metrics.cohen_kappa_score with its default
\* arguments: the confusion matrix over the labels of y1 and y2, the
\* expected matrix outer(sum0, sum1) / N, unit weights off the diagonal,
\* 1 - sum(w * confusion) / sum(w * expected); 0/0 is nan.
\* ------------------------------------------------------------------------
sklearn_installed == TRUE

cohen_kappa_score(y1, y2) ==
    LET N == Len(y1)
        labels == Range(y1) \cup Range(y2)
        sum1 == [a \in labels |-> Cardinality({i \in 1..N : y1[i] = a})]
        sum0 == [b \in labels |-> Cardinality({i \in 1..N : y2[i] = b})]
        offdiag == {p \in labels \X labels : p[1] # p[2]}
        wconf == Cardinality({i \in 1..N : y1[i] # y2[i]})
        wexp == Q(SumF([p \in offdiag |-> sum0[p[1]] * sum1[p[2]]], offdiag), N)
    IN  IF wexp.n = 0 THEN FNaN
        ELSE QSub(QInt(1), QDiv(QInt(wconf), wexp))


\* mutant: the minimum number of valid pairs off by one
calculate_kappa_min1(values1, values2) ==
    IF ~sklearn_installed THEN FNone
    ELSE LET vp == valid_pairs(values1, values2)
         IN  IF Len(vp) < 1 THEN FNone
             ELSE cohen_kappa_score([i \in 1..Len(vp) |-> Val(vp[i][1])],
                                    [i \in 1..Len(vp) |-> Val(vp[i][2])])

calculate_kappa(values1, values2) ==
    IF ~sklearn_installed THEN FNone
    ELSE LET vp == valid_pairs(values1, values2)
         IN  IF Len(vp) < 2 THEN FNone
             ELSE cohen_kappa_score([i \in 1..Len(vp) |-> Val(vp[i][1])],
                                    [i \in 1..Len(vp) |-> Val(vp[i][2])])

\* ------------------------------------------------------------------------
\* ICC(2,1), two raters
\* ------------------------------------------------------------------------

\* mutant: the result is returned unclamped
clamp_none(x) == x

clamp(x) ==
    IF QLt(x, QInt(-1)) THEN QInt(-1)
    ELSE IF QLt(QInt(1), x) THEN QInt(1) ELSE x

calculate_icc(values1, values2) ==
    LET vp == valid_pairs(values1, values2)
        n == Len(vp)
        I == 1..n
        v1 == [i \in I |-> Val(vp[i][1])]
        v2 == [i \in I |-> Val(vp[i][2])]
        mean_v1 == Q(SumF(v1, I), n)
        mean_v2 == Q(SumF(v2, I), n)
        grand_mean == QDiv(QAdd(mean_v1, mean_v2), QInt(2))
        row_means == [i \in I |-> Q(v1[i] + v2[i], 2)]
        MS_rows == QDiv(QMul(QInt(2),
                             QSumF([i \in I |-> QSq(QSub(row_means[i], grand_mean))], I)),
                        QInt(n - 1))
        MS_error == QDiv(QSumF([i \in I |->
                                  QAdd(QSq(QSub(QInt(v1[i]), row_means[i])),
                                       QSq(QSub(QInt(v2[i]), row_means[i])))], I),
                         QInt(n))
        MS_cols == QMul(QInt(n), QAdd(QSq(QSub(mean_v1, grand_mean)),
                                      QSq(QSub(mean_v2, grand_mean))))
        icc == QDiv(QSub(MS_rows, MS_error),
                    QAdd(QAdd(MS_rows, MS_error),
                         QDiv(QMul(QInt(2), QSub(MS_cols, MS_error)), QInt(n))))
    IN  IF n < 3 THEN FNone
        ELSE IF QAdd(MS_rows, MS_error).n = 0 THEN FNone
        ELSE clamp(icc)

\* ------------------------------------------------------------------------
\* ICC(2,1), 3+ raters: calculate_icc_multi(*value_lists)
\* ------------------------------------------------------------------------
\* rows = subjects, columns = raters; only the rows where every rater has a value
complete_rows(lists) ==
    LET n == Len(lists[1])
        rows == [i \in 1..n |-> [r \in 1..Len(lists) |-> lists[r][i]]]
    IN  SelectIdx(rows, [i \in 1..n |-> \A r \in 1..Len(lists) : ~IsNone(lists[r][i])], 1)

calculate_icc_multi(lists) ==
    LET valid_rows == complete_rows(lists)
        n == Len(valid_rows)
        k == Len(lists)
        I == 1..n
        J == 1..k
        data == [i \in I |-> [j \in J |-> Val(valid_rows[i][j])]]
        cells == I \X J
        grand_mean == Q(SumF([c \in cells |-> data[c[1]][c[2]]], cells), n * k)
        row_means == [i \in I |-> Q(SumF(data[i], J), k)]
        col_means == [j \in J |-> Q(SumF([i \in I |-> data[i][j]], I), n)]
        SS_total == QSumF([c \in cells |-> QSq(QSub(QInt(data[c[1]][c[2]]), grand_mean))],
                          cells)
        SS_rows == QMul(QInt(k), QSumF([i \in I |-> QSq(QSub(row_means[i], grand_mean))], I))
        SS_cols == QMul(QInt(n), QSumF([j \in J |-> QSq(QSub(col_means[j], grand_mean))], J))
        SS_error == QSub(QSub(SS_total, SS_rows), SS_cols)
        MS_rows == QDiv(SS_rows, QInt(n - 1))
        MS_cols == IF k > 1 THEN QDiv(SS_cols, QInt(k - 1)) ELSE QInt(0)
        MS_error == IF (n - 1) * (k - 1) > 0
                    THEN QDiv(SS_error, QInt((n - 1) * (k - 1))) ELSE QInt(0)
        denom == QAdd(QAdd(MS_rows, QMul(QInt(k - 1), MS_error)),
                      QDiv(QMul(QInt(k), QSub(MS_cols, MS_error)), QInt(n)))
    IN  IF n < 3 THEN FNone
        ELSE IF denom.n = 0 THEN FNone
        ELSE clamp(QDiv(QSub(MS_rows, MS_error), denom))

\* the mean squares of calculate_icc and the denominator of its quotient
icc_mean_squares(values1, values2) ==
    LET vp == valid_pairs(values1, values2)
        n == Len(vp)
        I == 1..n
        v1 == [i \in I |-> Val(vp[i][1])]
        v2 == [i \in I |-> Val(vp[i][2])]
        mean_v1 == Q(SumF(v1, I), n)
        mean_v2 == Q(SumF(v2, I), n)
        grand_mean == QDiv(QAdd(mean_v1, mean_v2), QInt(2))
        row_means == [i \in I |-> Q(v1[i] + v2[i], 2)]
        MS_rows == QDiv(QMul(QInt(2),
                             QSumF([i \in I |-> QSq(QSub(row_means[i], grand_mean))], I)),
                        QInt(n - 1))
        MS_error == QDiv(QSumF([i \in I |->
                                  QAdd(QSq(QSub(QInt(v1[i]), row_means[i])),
                                       QSq(QSub(QInt(v2[i]), row_means[i])))], I),
                         QInt(n))
        MS_cols == QMul(QInt(n), QAdd(QSq(QSub(mean_v1, grand_mean)),
                                      QSq(QSub(mean_v2, grand_mean))))
    IN  [n |-> n, MS_rows |-> MS_rows, MS_error |-> MS_error, MS_cols |-> MS_cols]

\* variant: the rater term is not divided by n
icc_denominator_undivided(values1, values2) ==
    LET ms == icc_mean_squares(values1, values2)
    IN  QAdd(QAdd(ms.MS_rows, ms.MS_error),
             QMul(QInt(2), QSub(ms.MS_cols, ms.MS_error)))

\* MS_rows + MS_error + 2 * (MS_cols - MS_error) / n
icc_denominator(values1, values2) ==
    LET ms == icc_mean_squares(values1, values2)
    IN  QAdd(QAdd(ms.MS_rows, ms.MS_error),
             QDiv(QMul(QInt(2), QSub(ms.MS_cols, ms.MS_error)), QInt(ms.n)))

\* the mean squares of calculate_icc_multi; its denominator is
\* MS_rows + (k - 1) * MS_error + k * (MS_cols - MS_error) / n
icc_multi_mean_squares(lists) ==
    LET valid_rows == complete_rows(lists)
        n == Len(valid_rows)
        k == Len(lists)
        I == 1..n
        J == 1..k
        data == [i \in I |-> [j \in J |-> Val(valid_rows[i][j])]]
        cells == I \X J
        grand_mean == Q(SumF([c \in cells |-> data[c[1]][c[2]]], cells), n * k)
        row_means == [i \in I |-> Q(SumF(data[i], J), k)]
        col_means == [j \in J |-> Q(SumF([i \in I |-> data[i][j]], I), n)]
        SS_total == QSumF([c \in cells |-> QSq(QSub(QInt(data[c[1]][c[2]]), grand_mean))],
                          cells)
        SS_rows == QMul(QInt(k), QSumF([i \in I |-> QSq(QSub(row_means[i], grand_mean))], I))
        SS_cols == QMul(QInt(n), QSumF([j \in J |-> QSq(QSub(col_means[j], grand_mean))], J))
        SS_error == QSub(QSub(SS_total, SS_rows), SS_cols)
        MS_rows == QDiv(SS_rows, QInt(n - 1))
        MS_cols == IF k > 1 THEN QDiv(SS_cols, QInt(k - 1)) ELSE QInt(0)
        MS_error == IF (n - 1) * (k - 1) > 0
                    THEN QDiv(SS_error, QInt((n - 1) * (k - 1))) ELSE QInt(0)
    IN  [n |-> n, k |-> k, MS_rows |-> MS_rows, MS_error |-> MS_error, MS_cols |-> MS_cols]

icc_multi_denominator(lists) ==
    LET ms == icc_multi_mean_squares(lists)
    IN  QAdd(QAdd(ms.MS_rows, QMul(QInt(ms.k - 1), ms.MS_error)),
             QDiv(QMul(QInt(ms.k), QSub(ms.MS_cols, ms.MS_error)), QInt(ms.n)))

\* ------------------------------------------------------------------------
\* Gwet's AC1, two raters
\* ------------------------------------------------------------------------
\* pe = (1 / (q - 1)) * sum(pk * (1 - pk)), pk = count_k / total

\* mutant: the 1 / (q - 1) factor is dropped
gwet_pe_unscaled(count, categories, total) ==
    LET pi_k == [c \in categories |-> Q(count[c], total)]
    IN  QSumF([c \in categories |-> QMul(pi_k[c], QSub(QInt(1), pi_k[c]))], categories)

gwet_pe(count, categories, total) ==
    LET q == Cardinality(categories)
        pi_k == [c \in categories |-> Q(count[c], total)]
    IN  QMul(Q(1, q - 1),
             QSumF([c \in categories |-> QMul(pi_k[c], QSub(QInt(1), pi_k[c]))], categories))

\* variant: a single observed category counts as perfect agreement
calculate_gwet_ac1_one_category(values1, values2) ==
    LET vp == valid_pairs(values1, values2)
        n == Len(vp)
        pa == Q(n_matches(vp), n)
        all_vals == [i \in 1..(2 * n) |-> IF i <= n THEN Val(vp[i][1]) ELSE Val(vp[i - n][2])]
        categories == Range(all_vals)
        q == Cardinality(categories)
        count == [c \in categories |-> Cardinality({i \in 1..(2 * n) : all_vals[i] = c})]
        pe == gwet_pe(count, categories, 2 * n)
    IN  IF n < 2 THEN FNone
        ELSE IF q < 2 THEN QInt(1)
        ELSE IF pe = QInt(1) THEN FNone
        ELSE QDiv(QSub(pa, pe), QSub(QInt(1), pe))

calculate_gwet_ac1(values1, values2) ==
    LET vp == valid_pairs(values1, values2)
        n == Len(vp)
        pa == Q(n_matches(vp), n)
        all_vals == [i \in 1..(2 * n) |-> IF i <= n THEN Val(vp[i][1]) ELSE Val(vp[i - n][2])]
        categories == Range(all_vals)
        q == Cardinality(categories)
        count == [c \in categories |-> Cardinality({i \in 1..(2 * n) : all_vals[i] = c})]
        pe == gwet_pe(count, categories, 2 * n)
    IN  IF n < 2 THEN FNone
        ELSE IF q < 2 THEN FNone
        ELSE IF pe = QInt(1) THEN FNone
        ELSE QDiv(QSub(pa, pe), QSub(QInt(1), pe))

\* ------------------------------------------------------------------------
\* Category count matrix shared by the multi-rater AC1 and Fleiss' Kappa
\* ------------------------------------------------------------------------
\* valid_rows = [row for row in ratings_matrix if all(v is not None for v in row)]

\* mutant: no row is dropped, a missing rating is coerced to 0
valid_rows_of_coerced(ratings_matrix) ==
    [i \in 1..Len(ratings_matrix) |->
        [j \in 1..Len(ratings_matrix[i]) |->
            IF IsNone(ratings_matrix[i][j]) THEN Some(0) ELSE ratings_matrix[i][j]]]

valid_rows_of(ratings_matrix) ==
    SelectIdx(ratings_matrix,
              [i \in 1..Len(ratings_matrix) |->
                  \A j \in 1..Len(ratings_matrix[i]) : ~IsNone(ratings_matrix[i][j])], 1)

row_categories(valid_rows) ==
    UNION {{Val(valid_rows[i][j]) : j \in 1..Len(valid_rows[i])} : i \in 1..Len(valid_rows)}

\* counts[i, cat] = number of raters that gave cat to subject i
category_counts(valid_rows, categories) ==
    [i \in 1..Len(valid_rows) |->
        [c \in categories |->
            Cardinality({j \in 1..Len(valid_rows[i]) : Val(valid_rows[i][j]) = c})]]

\* variant: the k self-agreements are not subtracted
fleiss_P_bar_raw(counts, categories, n, k) ==
    Q(SumF([i \in 1..n |->
              SumF([c \in categories |-> counts[i][c] * counts[i][c]], categories)],
           1..n),
      k * (k - 1) * n)

\* P_bar = mean over subjects of (sum_j counts_ij^2 - k) / (k * (k - 1))
fleiss_P_bar(counts, categories, n, k) ==
    Q(SumF([i \in 1..n |->
              SumF([c \in categories |-> counts[i][c] * counts[i][c]], categories) - k],
           1..n),
      k * (k - 1) * n)

\* variant: the chance correction is subtracted without rescaling by 1 - pe
calculate_gwet_ac1_multi_unscaled(ratings_matrix) ==
    LET valid_rows == valid_rows_of(ratings_matrix)
        n == Len(valid_rows)
        k == Len(valid_rows[1])
        categories == row_categories(valid_rows)
        q == Cardinality(categories)
        counts == category_counts(valid_rows, categories)
        P_bar == fleiss_P_bar(counts, categories, n, k)
        colsum == [c \in categories |-> SumF([i \in 1..n |-> counts[i][c]], 1..n)]
        pe == gwet_pe(colsum, categories, n * k)
    IN  IF n < 2 THEN FNone
        ELSE IF q < 2 THEN FNone
        ELSE IF pe = QInt(1) THEN FNone
        ELSE QSub(P_bar, pe)

calculate_gwet_ac1_multi(ratings_matrix) ==
    LET valid_rows == valid_rows_of(ratings_matrix)
        n == Len(valid_rows)
        k == Len(valid_rows[1])
        categories == row_categories(valid_rows)
        q == Cardinality(categories)
        counts == category_counts(valid_rows, categories)
        P_bar == fleiss_P_bar(counts, categories, n, k)
        colsum == [c \in categories |-> SumF([i \in 1..n |-> counts[i][c]], 1..n)]
        pe == gwet_pe(colsum, categories, n * k)
    IN  IF n < 2 THEN FNone
        ELSE IF q < 2 THEN FNone
        ELSE IF pe = QInt(1) THEN FNone
        ELSE QDiv(QSub(P_bar, pe), QSub(QInt(1), pe))

\* ------------------------------------------------------------------------
\* Fleiss' Kappa
\* ------------------------------------------------------------------------
\* variant: at least three complete rows are required
calculate_fleiss_kappa_three_rows(ratings_matrix) ==
    LET valid_rows == valid_rows_of(ratings_matrix)
        n == Len(valid_rows)
        k == Len(valid_rows[1])
        categories == row_categories(valid_rows)
        q == Cardinality(categories)
        counts == category_counts(valid_rows, categories)
        p_j == [c \in categories |-> Q(SumF([i \in 1..n |-> counts[i][c]], 1..n), n * k)]
        P_bar == fleiss_P_bar(counts, categories, n, k)
        P_e == QSumF([c \in categories |-> QSq(p_j[c])], categories)
    IN  IF n < 3 THEN FNone
        ELSE IF q < 2 THEN FNone
        ELSE IF P_e = QInt(1) THEN FNone
        ELSE QDiv(QSub(P_bar, P_e), QSub(QInt(1), P_e))

calculate_fleiss_kappa(ratings_matrix) ==
    LET valid_rows == valid_rows_of(ratings_matrix)
        n == Len(valid_rows)
        k == Len(valid_rows[1])
        categories == row_categories(valid_rows)
        q == Cardinality(categories)
        counts == category_counts(valid_rows, categories)
        p_j == [c \in categories |-> Q(SumF([i \in 1..n |-> counts[i][c]], 1..n), n * k)]
        P_bar == fleiss_P_bar(counts, categories, n, k)
        P_e == QSumF([c \in categories |-> QSq(p_j[c])], categories)
    IN  IF n < 2 THEN FNone
        ELSE IF q < 2 THEN FNone
        ELSE IF P_e = QInt(1) THEN FNone
        ELSE QDiv(QSub(P_bar, P_e), QSub(QInt(1), P_e))

\* ------------------------------------------------------------------------
\* Krippendorff's Alpha: calculate_krippendorff_alpha(*value_lists, level)
\* ------------------------------------------------------------------------
\* the non-None values of a row, in rater order
non_none(row) == SelectIdx(row, [j \in 1..Len(row) |-> ~IsNone(row[j])], 1)

\* valid_data: the rows (subjects) with at least 2 non-None values

\* mutant: only the subjects rated by every rater qualify
kripp_valid_data_complete(lists) ==
    LET n_subjects == Len(lists[1])
        data == [i \in 1..n_subjects |-> [r \in 1..Len(lists) |-> lists[r][i]]]
    IN  SelectIdx(data, [i \in 1..n_subjects |-> Len(non_none(data[i])) >= Len(lists)], 1)

kripp_valid_data(lists) ==
    LET n_subjects == Len(lists[1])
        data == [i \in 1..n_subjects |-> [r \in 1..Len(lists) |-> lists[r][i]]]
    IN  SelectIdx(data, [i \in 1..n_subjects |-> Len(non_none(data[i])) >= 2], 1)

RECURSIVE Flatten(_)
Flatten(ss) == IF ss = <<>> THEN <<>> ELSE Head(ss) \o Flatten(Tail(ss))

\* all_values: every non-None value of valid_data
kripp_all_values(valid_data) ==
    LET nn == Flatten([i \in 1..Len(valid_data) |-> non_none(valid_data[i])])
    IN  [i \in 1..Len(nn) |-> Val(nn[i])]

\* delta(a, b) for the three levels; the ordinal rank of v is its index in
\* sorted(set(all_values))
delta(level, all_values, a, b) ==
    IF level = "nominal" THEN (IF a = b THEN 0 ELSE 1)
    ELSE IF level = "ordinal"
    THEN LET rank(v) == Cardinality({u \in Range(all_values) : u < v})
         IN  (rank(a) - rank(b)) * (rank(a) - rank(b))
    ELSE (a - b) * (a - b)

\* sum of delta over all pairs i < j of a list of values, and the number of pairs
pair_delta_sum(level, all_values, vals) ==
    LET P == {p \in (1..Len(vals)) \X (1..Len(vals)) : p[1] < p[2]}
    IN  SumF([p \in P |-> delta(level, all_values, vals[p[1]], vals[p[2]])], P)

n_pairs(m) == (m * (m - 1)) \div 2

\* variant: De and the ranks pool every non-None value of the variable
calculate_krippendorff_alpha_pool_all(lists, level) ==
    LET valid_data == kripp_valid_data(lists)
        all_values ==
            kripp_all_values([i \in 1..Len(lists[1]) |->
                                 [r \in 1..Len(lists) |-> lists[r][i]]])
        rows == [i \in 1..Len(valid_data) |->
                    LET nn == non_none(valid_data[i]) IN [j \in 1..Len(nn) |-> Val(nn[j])]]
        I == 1..Len(valid_data)
        total_pairs == SumF([i \in I |-> n_pairs(Len(rows[i]))], I)
        Do == Q(SumF([i \in I |-> pair_delta_sum(level, all_values, rows[i])], I), total_pairs)
        total_expected_pairs == n_pairs(Len(all_values))
        De == Q(pair_delta_sum(level, all_values, all_values), total_expected_pairs)
    IN  IF Len(valid_data) < 2 THEN FNone
        ELSE IF Cardinality(Range(all_values)) < 2 THEN FNone
        ELSE IF total_pairs = 0 THEN FNone
        ELSE IF total_expected_pairs = 0 THEN FNone
        ELSE IF De.n = 0 THEN FNone
        ELSE QSub(QInt(1), QDiv(Do, De))

calculate_krippendorff_alpha(lists, level) ==
    LET valid_data == kripp_valid_data(lists)
        all_values == kripp_all_values(valid_data)
        rows == [i \in 1..Len(valid_data) |->
                    LET nn == non_none(valid_data[i]) IN [j \in 1..Len(nn) |-> Val(nn[j])]]
        I == 1..Len(valid_data)
        total_pairs == SumF([i \in I |-> n_pairs(Len(rows[i]))], I)
        Do == Q(SumF([i \in I |-> pair_delta_sum(level, all_values, rows[i])], I), total_pairs)
        total_expected_pairs == n_pairs(Len(all_values))
        De == Q(pair_delta_sum(level, all_values, all_values), total_expected_pairs)
    IN  IF Len(valid_data) < 2 THEN FNone
        ELSE IF Cardinality(Range(all_values)) < 2 THEN FNone
        ELSE IF total_pairs = 0 THEN FNone
        ELSE IF total_expected_pairs = 0 THEN FNone
        ELSE IF De.n = 0 THEN FNone
        ELSE QSub(QInt(1), QDiv(Do, De))

\* ------------------------------------------------------------------------
\* Inputs of the statistic functions
\* ------------------------------------------------------------------------
Ratings(maxv) == {None} \cup {Some(v) : v \in 0..maxv}
Columns(n, maxv) == [1..n -> Ratings(maxv)]

Levels == {"nominal", "ordinal", "ratio"}

NoCall == [fn |-> "none", level |-> "", out |-> FNone]
NoTable == <<>>
NoAnalysis == [kind |-> "none"]

\* transposes rater columns into the subject x rater ratings matrix
matrix_of(lists) ==
    [i \in 1..Len(lists[1]) |-> [r \in 1..Len(lists) |-> lists[r][i]]]

\* ------------------------------------------------------------------------
\* The pairwise engine applied to two aligned columns
\* ------------------------------------------------------------------------
InitPair ==
    /\ \E n \in 0..MaxLen : value_lists \in [1..2 -> Columns(n, 2)]
    /\ result = NoCall
    /\ claude_results = NoTable
    /\ chatgpt_results = NoTable
    /\ human_results = NoTable
    /\ human_dir = FALSE
    /\ analysis = NoAnalysis

\* one call of a statistic function on the input; what it returned is kept
Call(fn, lvl, out) ==
    /\ result = NoCall
    /\ result' = [fn |-> fn, level |-> lvl, out |-> out]
    /\ UNCHANGED <<value_lists, claude_results, chatgpt_results, human_results,
                   human_dir, analysis>>

CallAgreement ==
    Call("calculate_agreement", "", calculate_agreement(value_lists[1], value_lists[2]))

CallKappa ==
    Call("calculate_kappa", "", calculate_kappa(value_lists[1], value_lists[2]))

CallICC ==
    Call("calculate_icc", "", calculate_icc(value_lists[1], value_lists[2]))

CallGwetAC1 ==
    Call("calculate_gwet_ac1", "", calculate_gwet_ac1(value_lists[1], value_lists[2]))

CallKrippendorff ==
    \E lvl \in Levels :
        Call("calculate_krippendorff_alpha", lvl,
             calculate_krippendorff_alpha(value_lists, lvl))

NextPair ==
    \/ CallAgreement
    \/ CallKappa
    \/ CallICC
    \/ CallGwetAC1
    \/ CallKrippendorff

SpecPair == InitPair /\ [][NextPair]_vars

\* ------------------------------------------------------------------------
\* The multi-rater engine applied to two or three aligned columns
\* ------------------------------------------------------------------------
InitMulti ==
    /\ \/ \E n \in 0..MaxLen : value_lists \in [1..2 -> Columns(n, 2)]
       \/ \E n \in 0..MaxRows : value_lists \in [1..3 -> Columns(n, 1)]
       \/ \E n \in 0..(MaxRows - 1) : value_lists \in [1..3 -> Columns(n, 2)]
    /\ result = NoCall
    /\ claude_results = NoTable
    /\ chatgpt_results = NoTable
    /\ human_results = NoTable
    /\ human_dir = FALSE
    /\ analysis = NoAnalysis

CallICCMulti ==
    Call("calculate_icc_multi", "", calculate_icc_multi(value_lists))

CallGwetAC1Multi ==
    Call("calculate_gwet_ac1_multi", "", calculate_gwet_ac1_multi(matrix_of(value_lists)))

CallFleissKappa ==
    Call("calculate_fleiss_kappa", "", calculate_fleiss_kappa(matrix_of(value_lists)))

NextMulti ==
    \/ CallICC
    \/ CallICCMulti
    \/ CallKrippendorff
    \/ CallGwetAC1Multi
    \/ CallFleissKappa

SpecMulti == InitMulti /\ [][NextMulti]_vars

\* ========================================================================
\* Properties of the pairwise engine (checked under SpecPair)
\* ========================================================================
\* the positions at which both raters gave a value, and those where they match
ValidPos(A, B) == {i \in 1..Min2(Len(A), Len(B)) : A[i] # None /\ B[i] # None}
MatchPos(A, B) == {i \in ValidPos(A, B) : A[i] = B[i]}
\* the categories that occur among the valid pairs
PairCategories(A, B) == {A[i][1] : i \in ValidPos(A, B)} \cup {B[i][1] : i \in ValidPos(A, B)}
OptSeq(s) == [i \in 1..Len(s) |-> Some(s[i])]
Called(fn) == result.fn = fn

\* C1: calculate_agreement returns matches / valid pairs, a valid pair being a
\* position where both raters are not None and a match a valid pair of equal
\* values; it returns None exactly when there is no valid pair (never 0); and
\* [1,1,0,0,1] against [1,0,0,0,1] gives 4/5.
C1_AgreementIsMatchesOverValid ==
    /\ Called("calculate_agreement") =>
          LET A == value_lists[1]
              B == value_lists[2]
              nv == Cardinality(ValidPos(A, B))
              nm == Cardinality(MatchPos(A, B))
          IN  /\ (nv = 0) <=> (result.out = FNone)
              /\ nv > 0 => /\ IsVal(result.out)
                           /\ result.out.n * nv = nm * result.out.d
    /\ calculate_agreement(OptSeq(<<1, 1, 0, 0, 1>>), OptSeq(<<1, 0, 0, 0, 1>>)) = Q(4, 5)

\* C1 witness: a call on columns with a missing entry, a match and a mismatch
C1_Witness ==
    /\ Called("calculate_agreement")
    /\ \E i \in 1..Len(value_lists[1]) : value_lists[2][i] = None
    /\ result.out = Q(1, 2)

AC1Formula(A, B) ==
    LET V == ValidPos(A, B)
        n == Cardinality(V)
        cats == PairCategories(A, B)
        q == Cardinality(cats)
        pa == Q(Cardinality(MatchPos(A, B)), n)
        pik == [c \in cats |->
                  Q(Cardinality({i \in V : A[i][1] = c}) + Cardinality({i \in V : B[i][1] = c}),
                    2 * n)]
        pe == QDiv(QSumF([c \in cats |-> QMul(pik[c], QSub(QInt(1), pik[c]))], cats),
                   QInt(q - 1))
    IN  QDiv(QSub(pa, pe), QSub(QInt(1), pe))

\* C4 as stated: with at least two distinct categories among the valid pairs,
\* calculate_gwet_ac1 returns (pa - pe) / (1 - pe).
C4_Original ==
    Called("calculate_gwet_ac1") =>
        LET A == value_lists[1]
            B == value_lists[2]
        IN  Cardinality(PairCategories(A, B)) >= 2 => result.out = AC1Formula(A, B)

\* C4 (amended): with at least 2 valid pairs and at least two distinct
\* categories among them, calculate_gwet_ac1 returns (pa - pe) / (1 - pe);
\* with fewer than 2 valid pairs it returns None whatever the categories.
C4_AC1FormulaFromTwoPairs ==
    Called("calculate_gwet_ac1") =>
        LET A == value_lists[1]
            B == value_lists[2]
            nv == Cardinality(ValidPos(A, B))
        IN  /\ (nv >= 2 /\ Cardinality(PairCategories(A, B)) >= 2) =>
                   result.out = AC1Formula(A, B)
            /\ nv < 2 => result.out = FNone

\* C4 witness: three categories (q = 3) over valid pairs and a missing entry
C4_Witness ==
    /\ Called("calculate_gwet_ac1")
    /\ Cardinality(PairCategories(value_lists[1], value_lists[2])) = 3
    /\ Cardinality(ValidPos(value_lists[1], value_lists[2])) < Len(value_lists[1])
    /\ IsVal(result.out)

\* C5: percent agreement and Gwet's AC1 are symmetric in the raters: the call
\* on (A, B) returns what the call on (B, A) returns, None or the same value.
C5_Symmetry ==
    /\ Called("calculate_agreement") =>
          result.out = calculate_agreement(value_lists[2], value_lists[1])
    /\ Called("calculate_gwet_ac1") =>
          result.out = calculate_gwet_ac1(value_lists[2], value_lists[1])

\* C5 witness: different columns, one rater with a missing entry, AC1 a value
C5_Witness ==
    /\ Called("calculate_gwet_ac1")
    /\ value_lists[1] # value_lists[2]
    /\ \E i \in 1..Len(value_lists[1]) : value_lists[1][i] = None /\ value_lists[2][i] # None
    /\ IsVal(result.out)

\* ========================================================================
\* Properties of Krippendorff's Alpha, the ICCs and Fleiss' Kappa
\* (checked under SpecMulti)
\* ========================================================================
Subjects == 1..Len(value_lists[1])
Raters == 1..Len(value_lists)
\* the subjects with at least 2 non-missing ratings, and their rated cells
Qualifying == {i \in Subjects : Cardinality({r \in Raters : value_lists[r][i] # None}) >= 2}
QualCells == {c \in Qualifying \X Raters : value_lists[c[2]][c[1]] # None}
CellVal(c) == value_lists[c[2]][c[1]][1]
CellLt(c, e) == c[1] < e[1] \/ (c[1] = e[1] /\ c[2] < e[2])
\* distance between two values: 0/1 indicator (nominal), squared rank distance
\* over the sorted category universe (ordinal), squared difference (ratio)
Dist(level, a, b) ==
    LET universe == {CellVal(c) : c \in QualCells}
        rk(v) == Cardinality({u \in universe : u < v})
    IN  IF level = "nominal" THEN (IF a = b THEN 0 ELSE 1)
        ELSE IF level = "ordinal" THEN (rk(a) - rk(b)) * (rk(a) - rk(b))
        ELSE (a - b) * (a - b)
WithinPairs == {p \in QualCells \X QualCells : p[1][1] = p[2][1] /\ p[1][2] < p[2][2]}
AllPairs == {p \in QualCells \X QualCells : CellLt(p[1], p[2])}
DistSum(level, P) == SumF([p \in P |-> Dist(level, CellVal(p[1]), CellVal(p[2]))], P)

\* C6: calculate_krippendorff_alpha (2 or 3 raters, any missing entries)
\* returns None exactly when fewer than 2 subjects have at least 2 non-missing
\* ratings or the expected disagreement De is 0, and otherwise 1 - Do/De with
\* Do the mean distance over all within-subject pairs of non-missing ratings
\* and De the mean distance over all pairs of the qualifying subjects' ratings.
C6_AlphaMissingOrValue ==
    Called("calculate_krippendorff_alpha") =>
        LET lvl == result.level
            missing == \/ Cardinality(Qualifying) < 2
                       \/ DistSum(lvl, AllPairs) = 0
            Do == Q(DistSum(lvl, WithinPairs), Cardinality(WithinPairs))
            De == Q(DistSum(lvl, AllPairs), Cardinality(AllPairs))
        IN  /\ missing <=> (result.out = FNone)
            /\ ~missing => result.out = QSub(QInt(1), QDiv(Do, De))

\* C6 witness: three raters, the third missing for 2 of the 3 subjects (one of
\* them left with a single rating), two qualifying subjects, Alpha a value
C6_Witness ==
    /\ Called("calculate_krippendorff_alpha")
    /\ Len(value_lists) = 3
    /\ Cardinality({i \in Subjects : value_lists[3][i] = None}) = 2
    /\ Cardinality(Qualifying) = 2
    /\ Cardinality(Subjects) = 3
    /\ IsVal(result.out)

\* C7: calculate_icc returns None with fewer than 3 valid pairs,
\* calculate_icc_multi returns None when fewer than 3 subjects have a value
\* from every rater, and a value returned by either lies in [-1, 1].
C7_ICCMissingAndBounded ==
    /\ Called("calculate_icc") =>
          /\ Cardinality(ValidPos(value_lists[1], value_lists[2])) < 3 => result.out = FNone
          /\ IsVal(result.out) => QLe(QInt(-1), result.out) /\ QLe(result.out, QInt(1))
    /\ Called("calculate_icc_multi") =>
          /\ Cardinality({i \in Subjects : \A r \in Raters : value_lists[r][i] # None}) < 3
                => result.out = FNone
          /\ IsVal(result.out) => QLe(QInt(-1), result.out) /\ QLe(result.out, QInt(1))

\* C7 witness: a two-rater ICC at the lower bound, from three valid pairs
C7_Witness ==
    /\ Called("calculate_icc")
    /\ Cardinality(ValidPos(value_lists[1], value_lists[2])) = 3
    /\ result.out = QInt(-1)

\* the complete rows of the ratings matrix, and the Fleiss formula over them:
\* P_bar the mean of (sum_j n_ij^2 - k) / (k (k - 1)), P_e the sum of squared
\* pooled category proportions
CompleteSubjects == {i \in Subjects : \A r \in Raters : value_lists[r][i] # None}
CompleteCategories == {value_lists[r][i][1] : r \in Raters, i \in CompleteSubjects}
FleissFormula ==
    LET k == Cardinality(Raters)
        n == Cardinality(CompleteSubjects)
        nij(i, c) == Cardinality({r \in Raters : value_lists[r][i][1] = c})
        Pi == [i \in CompleteSubjects |->
                 Q(SumF([c \in CompleteCategories |-> nij(i, c) * nij(i, c)],
                        CompleteCategories) - k, k * (k - 1))]
        P_bar == QDiv(QSumF(Pi, CompleteSubjects), QInt(n))
        pj == [c \in CompleteCategories |->
                 Q(Cardinality({x \in CompleteSubjects \X Raters :
                                   value_lists[x[2]][x[1]][1] = c}), n * k)]
        P_e == QSumF([c \in CompleteCategories |-> QSq(pj[c])], CompleteCategories)
    IN  QDiv(QSub(P_bar, P_e), QSub(QInt(1), P_e))

\* the ratings matrix without its row i
WithoutRow(m, i) == [j \in 1..(Len(m) - 1) |-> IF j < i THEN m[j] ELSE m[j + 1]]
FleissIgnoresPartialRows ==
    \A i \in Subjects \ CompleteSubjects :
        calculate_fleiss_kappa(WithoutRow(matrix_of(value_lists), i)) = result.out

\* C8 as stated: rows with a missing value never change Fleiss' Kappa; over
\* the complete rows it is no value with fewer than 2 distinct categories and
\* otherwise equals (P_bar - P_e) / (1 - P_e).
C8_Original ==
    Called("calculate_fleiss_kappa") =>
        /\ FleissIgnoresPartialRows
        /\ Cardinality(CompleteCategories) < 2 => ~IsVal(result.out)
        /\ Cardinality(CompleteCategories) >= 2 => result.out = FleissFormula

\* C8 (amended): rows with a missing value never change Fleiss' Kappa (the
\* result with such a row removed is the same); over the complete rows it is
\* None with fewer than 2 complete rows or fewer than 2 distinct categories,
\* and otherwise equals (P_bar - P_e) / (1 - P_e).
C8_FleissOverCompleteRows ==
    Called("calculate_fleiss_kappa") =>
        LET few == \/ Cardinality(CompleteSubjects) < 2
                   \/ Cardinality(CompleteCategories) < 2
        IN  /\ FleissIgnoresPartialRows
            /\ few => result.out = FNone
            /\ ~few => result.out = FleissFormula

\* C8 witness: three raters, two complete rows and a row with a missing value,
\* Fleiss' Kappa a value
C8_Witness ==
    /\ Called("calculate_fleiss_kappa")
    /\ Len(value_lists) = 3
    /\ Cardinality(CompleteSubjects) = 2
    /\ Cardinality(Subjects) = 3
    /\ \E i \in Subjects \ CompleteSubjects : \E r \in Raters : value_lists[r][i] # None
    /\ IsVal(result.out)

\* ========================================================================
\* The comparison pipeline: compare_coders and compare_three_way
\* ========================================================================
\* Variables by type.  The model keeps two binary variables and one count
\* variable of the lists of the source; ORDINAL_VARIABLES is empty there too.
BINARY_VARIABLES == <<"DEVP", "DOCS">>
COUNT_VARIABLES == <<"METH">>
ORDINAL_VARIABLES == <<>>
PRIMARY_VARIABLES == BINARY_VARIABLES \o COUNT_VARIABLES \o ORDINAL_VARIABLES

InList(x, s) == \E i \in 1..Len(s) : s[i] = x

\* the list [f[1], ..., f[n]] as built by a comprehension or an append loop
RECURSIVE ListOf(_, _)
ListOf(f, n) == IF n = 0 THEN <<>> ELSE Append(ListOf(f, n - 1), f[n])

\* Raw values of a results file: [t, v] with t the kind of JSON value and, for
\* a number or a numeric string, v the value in tenths.
RawNone == [t |-> "None", v |-> 0]
RawNumber(tenths) == [t |-> "number", v |-> tenths]
RawInt(i) == RawNumber(10 * i)

\* int(x) of a float given in tenths: truncation toward zero
int_of_tenths(v) == IF v >= 0 THEN v \div 10 ELSE -((-v) \div 10)

\* the exception int(float(v)) raises on an infinity; _normalize_value catches
\* ValueError and TypeError only, so this one leaves the function
OverflowError == <<0, "OverflowError">>

\* raw values: None; a blank string; a float nan; a finite number or a string
\* float() reads as one (v tenths); an infinity or a string float() reads as
\* one ("inf"); the string "nan" ("nan_string"), on which int() raises
\* ValueError; any other string ("string"), on which float() raises ValueError
normalize_value(v, var) ==
    IF v.t = "None" THEN None
    ELSE IF v.t = "blank_string" THEN None
    ELSE IF v.t = "nan" THEN None
    ELSE IF v.t \in {"number", "numeric_string"} THEN Some(int_of_tenths(v.v))
    ELSE IF v.t = "inf" THEN OverflowError
    ELSE None

\* r.get(var) of a platform's flattened record
dict_get(r, var) == IF var \in DOMAIN r THEN r[var] ELSE RawNone

var_type(var) ==
    IF InList(var, BINARY_VARIABLES) THEN "binary"
    ELSE IF InList(var, COUNT_VARIABLES) THEN "count" ELSE "ordinal"

\* mutant: the np.isnan test is forgotten, nan entries stay in the list
valid_floats_with_nan(xs) == SelectIdx(xs, [i \in 1..Len(xs) |-> xs[i] # FNone], 1)

\* [x for x in xs if x is not None and not np.isnan(x)]
valid_floats(xs) == SelectIdx(xs, [i \in 1..Len(xs) |-> IsVal(xs[i])], 1)
\* variant: an empty list averages to 0
mean_or_none_zero(xs) == IF Len(xs) = 0 THEN QInt(0) ELSE np_mean(xs)
\* float(np.mean(xs)) if xs else None
mean_or_none(xs) == IF Len(xs) = 0 THEN FNone ELSE np_mean(xs)

\* the column of a coder for a variable over the listed platforms
coder_column(results, ids, var) ==
    ListOf([i \in 1..Len(ids) |-> normalize_value(dict_get(results[ids[i]], var), var)],
           Len(ids))

\* [x for x in xs if x is not None]
not_none_floats(xs) == SelectIdx(xs, [i \in 1..Len(xs) |-> xs[i] # FNone], 1)

\* mutant: the None tests are forgotten, a missing rating counts as a difference
pair_disagreements_unfiltered(common_ids, v1, v2) ==
    SelectIdx([i \in 1..Len(common_ids) |->
                  [platform_id |-> common_ids[i], coder1 |-> v1[i], coder2 |-> v2[i]]],
              [i \in 1..Len(common_ids) |-> v1[i] # v2[i]], 1)

\* the disagreements collected by compare_coders for one variable
pair_disagreements(common_ids, v1, v2) ==
    SelectIdx([i \in 1..Len(common_ids) |->
                  [platform_id |-> common_ids[i], coder1 |-> v1[i], coder2 |-> v2[i]]],
              [i \in 1..Len(common_ids) |->
                  v1[i] # v2[i] /\ ~IsNone(v1[i]) /\ ~IsNone(v2[i])], 1)

\* the per-variable record of compare_coders, from the two coders' columns
\* variant: Kappa is computed whatever the type of the variable
pair_record_kappa_always(var, common_ids, v1, v2) ==
    LET categorical == InList(var, BINARY_VARIABLES) \/ InList(var, ORDINAL_VARIABLES)
        count == InList(var, COUNT_VARIABLES)
        kr_level == IF count THEN "ratio"
                    ELSE IF InList(var, ORDINAL_VARIABLES) THEN "ordinal" ELSE "nominal"
    IN  [variable |-> var,
         type |-> var_type(var),
         n |-> Len(valid_pairs(v1, v2)),
         agreement |-> calculate_agreement(v1, v2),
         kappa |-> calculate_kappa(v1, v2),
         icc |-> IF count THEN calculate_icc(v1, v2) ELSE FNone,
         gwet_ac1 |-> IF categorical THEN calculate_gwet_ac1(v1, v2) ELSE FNone,
         kripp_alpha |->
             IF count \/ categorical THEN calculate_krippendorff_alpha(<<v1, v2>>, kr_level)
             ELSE FNone,
         n_disagreements |-> Len(pair_disagreements(common_ids, v1, v2)),
         disagreements |-> pair_disagreements(common_ids, v1, v2)]

pair_record(var, common_ids, v1, v2) ==
    LET categorical == InList(var, BINARY_VARIABLES) \/ InList(var, ORDINAL_VARIABLES)
        count == InList(var, COUNT_VARIABLES)
        kr_level == IF count THEN "ratio"
                    ELSE IF InList(var, ORDINAL_VARIABLES) THEN "ordinal" ELSE "nominal"
    IN  [variable |-> var,
         type |-> var_type(var),
         n |-> Len(valid_pairs(v1, v2)),
         agreement |-> calculate_agreement(v1, v2),
         kappa |-> IF categorical THEN calculate_kappa(v1, v2) ELSE FNone,
         icc |-> IF count THEN calculate_icc(v1, v2) ELSE FNone,
         gwet_ac1 |-> IF categorical THEN calculate_gwet_ac1(v1, v2) ELSE FNone,
         kripp_alpha |->
             IF count \/ categorical THEN calculate_krippendorff_alpha(<<v1, v2>>, kr_level)
             ELSE FNone,
         n_disagreements |-> Len(pair_disagreements(common_ids, v1, v2)),
         disagreements |-> pair_disagreements(common_ids, v1, v2)]

pair_variable(coder1_results, coder2_results, common_ids, var) ==
    pair_record(var, common_ids,
                coder_column(coder1_results, common_ids, var),
                coder_column(coder2_results, common_ids, var))

\* the overall statistics and the summary of compare_coders
pair_summary(irr_results, common_ids, coder1_name, coder2_name) ==
    LET V == 1..Len(irr_results)
    IN  [coder1 |-> coder1_name,
         coder2 |-> coder2_name,
         n_platforms |-> Len(common_ids),
         platform_ids |-> common_ids,
         n_variables |-> Len(PRIMARY_VARIABLES),
         overall_agreement |->
             mean_or_none(not_none_floats([j \in V |-> irr_results[j].agreement])),
         mean_kappa |-> mean_or_none(valid_floats([j \in V |-> irr_results[j].kappa])),
         n_kappa_valid |-> Len(valid_floats([j \in V |-> irr_results[j].kappa])),
         n_kappa_perfect_agreement |-> Cardinality({j \in V : irr_results[j].kappa = FNaN}),
         mean_gwet_ac1 |-> mean_or_none(valid_floats([j \in V |-> irr_results[j].gwet_ac1])),
         n_ac1_valid |-> Len(valid_floats([j \in V |-> irr_results[j].gwet_ac1])),
         mean_kripp_alpha |->
             mean_or_none(valid_floats([j \in V |-> irr_results[j].kripp_alpha])),
         n_kripp_valid |-> Len(valid_floats([j \in V |-> irr_results[j].kripp_alpha])),
         mean_icc |-> mean_or_none(valid_floats([j \in V |-> irr_results[j].icc])),
         variables |-> irr_results]

\* variant: a variable without a valid pair gets no record
compare_coders_skip_unrated(coder1_results, coder2_results, coder1_name, coder2_name) ==
    LET common_ids == SortedSeq(DOMAIN coder1_results \cap DOMAIN coder2_results)
        irr_results == ListOf([j \in 1..Len(PRIMARY_VARIABLES) |->
                                 pair_variable(coder1_results, coder2_results, common_ids,
                                               PRIMARY_VARIABLES[j])],
                              Len(PRIMARY_VARIABLES))
    IN  pair_summary(SelectIdx(irr_results,
                               [j \in 1..Len(irr_results) |-> irr_results[j].n > 0], 1),
                     common_ids, coder1_name, coder2_name)

compare_coders(coder1_results, coder2_results, coder1_name, coder2_name) ==
    LET common_ids == SortedSeq(DOMAIN coder1_results \cap DOMAIN coder2_results)
    IN  pair_summary(ListOf([j \in 1..Len(PRIMARY_VARIABLES) |->
                               pair_variable(coder1_results, coder2_results, common_ids,
                                             PRIMARY_VARIABLES[j])],
                            Len(PRIMARY_VARIABLES)),
                     common_ids, coder1_name, coder2_name)

\* mutant: a subject counts as soon as two of its three ratings are present
all_present_any2(vc, vg, vh) ==
    Cardinality({c \in 1..3 : ~IsNone(<<vc, vg, vh>>[c])}) >= 2

\* vc is not None and vg is not None and vh is not None
all_present(vc, vg, vh) == ~IsNone(vc) /\ ~IsNone(vg) /\ ~IsNone(vh)

\* the three-way disagreements collected by compare_three_way for one variable
disagreements_3way(common_all, claude_vals, chatgpt_vals, human_vals) ==
    SelectIdx([i \in 1..Len(common_all) |->
                  [platform_id |-> common_all[i], Claude |-> claude_vals[i],
                   ChatGPT |-> chatgpt_vals[i], Human |-> human_vals[i]]],
              [i \in 1..Len(common_all) |->
                  /\ all_present(claude_vals[i], chatgpt_vals[i], human_vals[i])
                  /\ ~(claude_vals[i] = chatgpt_vals[i] /\ chatgpt_vals[i] = human_vals[i])],
              1)

\* valid_triples, and the ratings rows handed to Fleiss' Kappa and the
\* multi-rater AC1: the subjects every rater coded
valid_triples(claude_vals, chatgpt_vals, human_vals) ==
    LET m == Min2(Len(claude_vals), Min2(Len(chatgpt_vals), Len(human_vals)))
    IN  SelectIdx([i \in 1..m |-> <<claude_vals[i], chatgpt_vals[i], human_vals[i]>>],
                  [i \in 1..m |-> all_present(claude_vals[i], chatgpt_vals[i], human_vals[i])],
                  1)

\* variant: a triple agrees as soon as two of its ratings are equal
three_way_agree_majority(triples) ==
    IF Len(triples) > 0
    THEN Q(Cardinality({i \in 1..Len(triples) :
                          \/ triples[i][1] = triples[i][2]
                          \/ triples[i][2] = triples[i][3]
                          \/ triples[i][1] = triples[i][3]}),
           Len(triples))
    ELSE FNone

\* three_way_agree = n_agree / n_valid, None without a valid triple
three_way_agree(triples) ==
    IF Len(triples) > 0
    THEN Q(Cardinality({i \in 1..Len(triples) :
                          triples[i][1] = triples[i][2] /\ triples[i][2] = triples[i][3]}),
           Len(triples))
    ELSE FNone

\* the per-variable record of the three-way statistics, from the three columns
three_way_record(var, common_all, claude_vals, chatgpt_vals, human_vals, ratings) ==
    LET categorical == InList(var, BINARY_VARIABLES) \/ InList(var, ORDINAL_VARIABLES)
        count == InList(var, COUNT_VARIABLES)
        kr_level == IF count THEN "ratio"
                    ELSE IF InList(var, ORDINAL_VARIABLES) THEN "ordinal" ELSE "nominal"
    IN  [variable |-> var,
         type |-> var_type(var),
         n |-> Len(ratings),
         three_way_agreement |-> three_way_agree(ratings),
         fleiss_kappa |-> IF categorical THEN calculate_fleiss_kappa(ratings) ELSE FNone,
         gwet_ac1 |-> IF categorical THEN calculate_gwet_ac1_multi(ratings) ELSE FNone,
         kripp_alpha |->
             IF count \/ categorical
             THEN calculate_krippendorff_alpha(<<claude_vals, chatgpt_vals, human_vals>>,
                                               kr_level)
             ELSE FNone,
         icc_3way |-> IF count
                      THEN calculate_icc_multi(<<claude_vals, chatgpt_vals, human_vals>>)
                      ELSE FNone,
         n_disagreements |->
             Len(disagreements_3way(common_all, claude_vals, chatgpt_vals, human_vals)),
         disagreements |->
             disagreements_3way(common_all, claude_vals, chatgpt_vals, human_vals)]

three_way_columns(var, common_all, claude_vals, chatgpt_vals, human_vals) ==
    three_way_record(var, common_all, claude_vals, chatgpt_vals, human_vals,
                     valid_triples(claude_vals, chatgpt_vals, human_vals))

three_way_variable(claude, chatgpt, human, common_all, var) ==
    three_way_columns(var, common_all,
                      coder_column(claude, common_all, var),
                      coder_column(chatgpt, common_all, var),
                      coder_column(human, common_all, var))

\* the overall three-way statistics and the summary of compare_three_way
three_way_summary(three_way_vars, common_all) ==
    LET V == 1..Len(three_way_vars)
    IN  [n_platforms |-> Len(common_all),
         platform_ids |-> common_all,
         n_variables |-> Len(PRIMARY_VARIABLES),
         overall_three_way_agreement |->
             mean_or_none(not_none_floats([j \in V |-> three_way_vars[j].three_way_agreement])),
         mean_fleiss_kappa |->
             mean_or_none(valid_floats([j \in V |-> three_way_vars[j].fleiss_kappa])),
         n_fleiss_valid |-> Len(valid_floats([j \in V |-> three_way_vars[j].fleiss_kappa])),
         mean_gwet_ac1 |-> mean_or_none(valid_floats([j \in V |-> three_way_vars[j].gwet_ac1])),
         n_ac1_valid |-> Len(valid_floats([j \in V |-> three_way_vars[j].gwet_ac1])),
         mean_kripp_alpha |->
             mean_or_none(valid_floats([j \in V |-> three_way_vars[j].kripp_alpha])),
         n_kripp_valid |-> Len(valid_floats([j \in V |-> three_way_vars[j].kripp_alpha])),
         mean_icc_3way |-> mean_or_none(valid_floats([j \in V |-> three_way_vars[j].icc_3way])),
         variables |-> three_way_vars]

\* the three coders of a three-way run, and the pairs compare_three_way compares
CODERS == <<"Claude", "ChatGPT", "Human">>
PAIRS == [claude_vs_chatgpt |-> <<1, 2>>, claude_vs_human |-> <<1, 3>>,
          chatgpt_vs_human |-> <<2, 3>>]

compare_three_way(claude, chatgpt, human) ==
    LET common_all == SortedSeq(DOMAIN claude \cap DOMAIN chatgpt \cap DOMAIN human)
        tables == <<claude, chatgpt, human>>
    IN  [kind |-> "three_way",
         coders |-> CODERS,
         pairwise |->
             [pr \in DOMAIN PAIRS |->
                 compare_coders(tables[PAIRS[pr][1]], tables[PAIRS[pr][2]],
                                CODERS[PAIRS[pr][1]], CODERS[PAIRS[pr][2]])],
         three_way |->
             three_way_summary(ListOf([j \in 1..Len(PRIMARY_VARIABLES) |->
                                         three_way_variable(claude, chatgpt, human, common_all,
                                                            PRIMARY_VARIABLES[j])],
                                      Len(PRIMARY_VARIABLES)),
                               common_all)]

\* ------------------------------------------------------------------------
\* run_analysis on loaded result tables
\* ------------------------------------------------------------------------
VarSet == {PRIMARY_VARIABLES[j] : j \in 1..Len(PRIMARY_VARIABLES)}
RawCells == {RawNone, RawInt(0), RawInt(1)}

\* the table of one coder: platform p rated present[x] variables with m[p][x]
TableOf(P, present, m, coder) ==
    [p \in P |-> [x \in VarSet |-> IF x \in present THEN m[<<p, x, coder>>] ELSE RawNone]]

\* the platforms of a three-way run in which variable x is coded: the ICC of
\* a count variable needs three subjects that every rater coded
PlatformsOf(x) ==
    IF InList(x, COUNT_VARIABLES) THEN 1..(NumPlatforms + 1) ELSE 1..NumPlatforms

\* the cells of a count variable on a platform with more to count
CountCells == {RawNone, RawInt(1), RawInt(2)}
\* the cells of the platforms that may have ratings missing
PartialCells(x) == IF InList(x, COUNT_VARIABLES) THEN CountCells ELSE RawCells

\* Two-way runs: two coders, NumPlatformsPair platforms, the binary variables
\* coded, any rating possibly missing.
\* Three-way runs: three coders, one variable coded; the last MaxPartial
\* platforms may have ratings missing, and a count variable has counts up to 2
\* there.
Init ==
    /\ value_lists = <<>>
    /\ result = NoCall
    /\ analysis = NoAnalysis
    /\ \/ /\ human_dir = FALSE
          /\ human_results = NoTable
          /\ LET P == 1..NumPlatformsPair
                 present == {BINARY_VARIABLES[j] : j \in 1..Len(BINARY_VARIABLES)}
             IN  \E m \in [P \X present \X {1, 2} -> RawCells] :
                    /\ claude_results = TableOf(P, present, m, 1)
                    /\ chatgpt_results = TableOf(P, present, m, 2)
       \/ /\ human_dir = TRUE
          /\ \E x \in {"DEVP", "METH"} :
                LET P == PlatformsOf(x)
                    full == {p \in P : p + MaxPartial <= Cardinality(P)}
                IN  \E mf \in [full \X {x} \X {1, 2, 3} -> RawCells \ {RawNone}] :
                    \E mp \in [(P \ full) \X {x} \X {1, 2, 3} -> PartialCells(x)] :
                      LET m == [k \in P \X {x} \X {1, 2, 3} |->
                                  IF k[1] \in full THEN mf[k] ELSE mp[k]]
                      IN  /\ claude_results = TableOf(P, {x}, m, 1)
                          /\ chatgpt_results = TableOf(P, {x}, m, 2)
                          /\ human_results = TableOf(P, {x}, m, 3)
       \* directories without a result file: load_results returns {}
       \/ /\ human_dir \in BOOLEAN
          /\ claude_results = NoTable
          /\ chatgpt_results = NoTable
          /\ human_results = NoTable

\* run_analysis without a human directory: compare_coders on the loaded tables
CompareCoders ==
    /\ analysis = NoAnalysis
    /\ ~human_dir
    /\ analysis' = [kind |-> "two_way",
                    summary |-> compare_coders(claude_results, chatgpt_results,
                                               "Claude", "ChatGPT")]
    /\ UNCHANGED <<value_lists, result, claude_results, chatgpt_results, human_results,
                   human_dir>>

\* run_analysis with a human directory: compare_three_way on the loaded tables
CompareThreeWay ==
    /\ analysis = NoAnalysis
    /\ human_dir
    /\ analysis' = compare_three_way(claude_results, chatgpt_results, human_results)
    /\ UNCHANGED <<value_lists, result, claude_results, chatgpt_results, human_results,
                   human_dir>>

Next ==
    \/ CompareCoders
    \/ CompareThreeWay

Spec == Init /\ [][Next]_vars

\* ------------------------------------------------------------------------
\* Claims about compare_coders and compare_three_way (checked under Spec)
\* ------------------------------------------------------------------------
VarIdx == 1..Len(PRIMARY_VARIABLES)
Tables == <<claude_results, chatgpt_results, human_results>>
ThreeWayDone == analysis.kind = "three_way"

\* the normalised rating of platform p on variable x in the table t
Rating(t, p, x) == normalize_value(dict_get(t[p], x), x)

\* every finished run of compare_coders: its two tables and its summary
PairRuns ==
    IF analysis.kind = "two_way"
    THEN {[t1 |-> claude_results, t2 |-> chatgpt_results, summary |-> analysis.summary]}
    ELSE IF analysis.kind = "three_way"
    THEN {[t1 |-> Tables[PAIRS[pr][1]], t2 |-> Tables[PAIRS[pr][2]],
           summary |-> analysis.pairwise[pr]] : pr \in DOMAIN PAIRS}
    ELSE {}

Common(r) == DOMAIN r.t1 \cap DOMAIN r.t2
BothRated(r, x) ==
    {p \in Common(r) : ~IsNone(Rating(r.t1, p, x)) /\ ~IsNone(Rating(r.t2, p, x))}

\* both raters gave one and the same value to every subject, on at least 2 valid pairs
ConstantlyRated(r, x) ==
    /\ Cardinality(BothRated(r, x)) >= 2
    /\ Cardinality({Rating(r.t1, p, x) : p \in BothRated(r, x)}
                   \cup {Rating(r.t2, p, x) : p \in BothRated(r, x)}) = 1

ConstantVars(r) ==
    {j \in VarIdx : /\ InList(PRIMARY_VARIABLES[j], BINARY_VARIABLES \o ORDINAL_VARIABLES)
                    /\ ConstantlyRated(r, PRIMARY_VARIABLES[j])}
KappaValued(r) == {j \in VarIdx : IsVal(r.summary.variables[j].kappa)}

Platforms3 == DOMAIN claude_results \cap DOMAIN chatgpt_results \cap DOMAIN human_results
RatingsOf(p, x) == [c \in 1..3 |-> Rating(Tables[c], p, x)]
RatedBy(p, x) == {c \in 1..3 : ~IsNone(RatingsOf(p, x)[c])}
OneMissing(p, x) == Cardinality(RatedBy(p, x)) = 2
CompletePlatforms(x) == {p \in Platforms3 : Cardinality(RatedBy(p, x)) = 3}
UnanimousPlatforms(x) ==
    {p \in CompletePlatforms(x) : Cardinality({RatingsOf(p, x)[c] : c \in 1..3}) = 1}

\* the statistics that use only the subjects every rater coded
CompleteCaseStats(rec) ==
    <<rec.n, rec.three_way_agreement, rec.fleiss_kappa, rec.gwet_ac1, rec.icc_3way>>

\* the per-variable record of a three-way run without platform p
RecordWithout(p, x) ==
    LET S == Platforms3 \ {p}
    IN  three_way_variable([q \in S |-> claude_results[q]], [q \in S |-> chatgpt_results[q]],
                           [q \in S |-> human_results[q]], SortedSeq(S), x)

\* the table of coder c with the rating of platform p on x replaced by v, if c rated it
Rerated(c, p, x, v) ==
    IF c \in RatedBy(p, x) THEN [Tables[c] EXCEPT ![p][x] = RawInt(v)] ELSE Tables[c]

\* the new ratings a and b of the two raters who coded platform p on x
NewRatings(p, x, a, b) ==
    LET first == CHOOSE c \in RatedBy(p, x) : \A e \in RatedBy(p, x) : c <= e
    IN  [c \in 1..3 |-> IF c = first THEN a ELSE b]

\* the per-variable record of a three-way run in which the raters who coded
\* platform p on x gave new[c] instead
RecordRerated(p, x, new) ==
    three_way_variable(Rerated(1, p, x, new[1]), Rerated(2, p, x, new[2]),
                       Rerated(3, p, x, new[3]), SortedSeq(Platforms3), x)

\* C9: in compare_three_way a subject with exactly one of the three ratings
\* missing on a variable is outside the variable's three-way agreement
\* denominator, Fleiss' Kappa, multi-rater AC1 and multi-rater ICC: n counts
\* the completely rated subjects only, and these statistics are what they are
\* without the subject and whatever its two remaining ratings are.
C9_PartialSubjectExcluded ==
    ThreeWayDone =>
        \A j \in VarIdx :
            LET x == PRIMARY_VARIABLES[j]
                rec == analysis.three_way.variables[j]
            IN  /\ rec.n = Cardinality(CompletePlatforms(x))
                /\ rec.n > 0 =>
                      rec.three_way_agreement = Q(Cardinality(UnanimousPlatforms(x)), rec.n)
                /\ \A p \in Platforms3 :
                      OneMissing(p, x) =>
                          /\ CompleteCaseStats(rec) = CompleteCaseStats(RecordWithout(p, x))
                          /\ \A a, b \in 0..1 :
                                CompleteCaseStats(rec) =
                                    CompleteCaseStats(RecordRerated(p, x,
                                                                    NewRatings(p, x, a, b)))

\* a count variable with an ICC value and a subject with one rating missing
\* whose two remaining ratings, when changed, change Krippendorff's Alpha
C9_Witness ==
    /\ ThreeWayDone
    /\ \E j \in VarIdx :
          LET x == PRIMARY_VARIABLES[j]
              rec == analysis.three_way.variables[j]
          IN  /\ IsVal(rec.icc_3way)
              /\ IsVal(rec.kripp_alpha)
              /\ \E p \in Platforms3 :
                    /\ OneMissing(p, x)
                    /\ \E a, b \in 0..1 :
                          RecordRerated(p, x, NewRatings(p, x, a, b)).kripp_alpha
                              # rec.kripp_alpha

\* a binary variable with a Fleiss' Kappa value and such a subject
C9_WitnessBinary ==
    /\ ThreeWayDone
    /\ \E j \in VarIdx :
          LET x == PRIMARY_VARIABLES[j]
              rec == analysis.three_way.variables[j]
          IN  /\ IsVal(rec.fleiss_kappa)
              /\ IsVal(rec.gwet_ac1)
              /\ \E p \in Platforms3 :
                    /\ OneMissing(p, x)
                    /\ RecordWithout(p, x).kripp_alpha # rec.kripp_alpha

\* ------------------------------------------------------------------------
\* Disagreement entries
\* ------------------------------------------------------------------------
EntryIds(entries) == {entries[i].platform_id : i \in 1..Len(entries)}

\* at least 2 ratings of platform p on x are present and they are not all equal
Disputed(p, x) ==
    /\ Cardinality(RatedBy(p, x)) >= 2
    /\ Cardinality({RatingsOf(p, x)[c] : c \in RatedBy(p, x)}) > 1

\* compare_coders: one entry, with the two ratings, for exactly the subjects
\* both coders rated differently
PairEntriesExact(r, j) ==
    LET x == PRIMARY_VARIABLES[j]
        rec == r.summary.variables[j]
        d == rec.disagreements
    IN  /\ EntryIds(d) = {p \in BothRated(r, x) : Rating(r.t1, p, x) # Rating(r.t2, p, x)}
        /\ Len(d) = Cardinality(EntryIds(d))
        /\ rec.n_disagreements = Len(d)
        /\ \A i \in 1..Len(d) : /\ d[i].coder1 = Rating(r.t1, d[i].platform_id, x)
                                /\ d[i].coder2 = Rating(r.t2, d[i].platform_id, x)

\* the three-way list of compare_three_way: one entry, with the three ratings,
\* for exactly the subjects all three coders rated and not all alike
ThreeWayEntriesExact(j) ==
    LET x == PRIMARY_VARIABLES[j]
        rec == analysis.three_way.variables[j]
        d == rec.disagreements
    IN  /\ EntryIds(d) = CompletePlatforms(x) \ UnanimousPlatforms(x)
        /\ Len(d) = Cardinality(EntryIds(d))
        /\ rec.n_disagreements = Len(d)
        /\ \A i \in 1..Len(d) :
              <<d[i].Claude, d[i].ChatGPT, d[i].Human>>
                  = <<RatingsOf(d[i].platform_id, x)[1], RatingsOf(d[i].platform_id, x)[2],
                      RatingsOf(d[i].platform_id, x)[3]>>

\* the subjects of variable j with an entry in the list of some pairwise comparison
PairwiseIds(j) == UNION {EntryIds(r.summary.variables[j].disagreements) : r \in PairRuns}

\* C10 as stated: every (variable, subject) with at least 2 non-missing ratings
\* that are not all equal has a disagreement entry; in compare_three_way that
\* includes the subject two raters rated differently and the third left out.
C10_Original ==
    /\ \A r \in PairRuns : \A j \in VarIdx :
          \A p \in BothRated(r, PRIMARY_VARIABLES[j]) :
              Rating(r.t1, p, PRIMARY_VARIABLES[j]) # Rating(r.t2, p, PRIMARY_VARIABLES[j])
                  => p \in EntryIds(r.summary.variables[j].disagreements)
    /\ ThreeWayDone =>
          \A j \in VarIdx : \A p \in Platforms3 :
              Disputed(p, PRIMARY_VARIABLES[j])
                  => p \in EntryIds(analysis.three_way.variables[j].disagreements)

\* C10 (amended): compare_coders records an entry for exactly the subjects
\* both coders rated differently.  The three-way list of compare_three_way
\* records an entry for exactly the subjects all three coders rated and not
\* all alike; a subject two raters rated differently and the third left out
\* has its entry in the list of that pair's comparison only.
C10_EntriesOverRatedTuples ==
    /\ \A r \in PairRuns : \A j \in VarIdx : PairEntriesExact(r, j)
    /\ ThreeWayDone =>
          \A j \in VarIdx :
              /\ ThreeWayEntriesExact(j)
              /\ \A p \in Platforms3 :
                    Disputed(p, PRIMARY_VARIABLES[j]) <=> p \in PairwiseIds(j)

\* a three-way run with a subject two raters rated differently and the
\* third left out: no entry in the three-way list, one in a pairwise list
C10_Witness ==
    /\ ThreeWayDone
    /\ \E j \in VarIdx : \E p \in Platforms3 :
          /\ OneMissing(p, PRIMARY_VARIABLES[j])
          /\ Disputed(p, PRIMARY_VARIABLES[j])
          /\ p \notin EntryIds(analysis.three_way.variables[j].disagreements)
          /\ p \in PairwiseIds(j)

\* ========================================================================
\* Scripts/human_irr_calculator.py: raw agreement counts of the human coding
\* against the two AI coders
\* ========================================================================
NumHumanCells == 3

\* a string that float() rejects; v identifies str(val).lower().strip()
RawText(k) == [t |-> "string", v |-> k]

\* pd.isna(val)
pd_isna(val) == val.t \in {"None", "nan"}
\* whether float(val) returns (a number or a numeric string) or raises
floatable(val) == val.t \in {"number", "numeric_string"}

\* calculate_agreement(val1, val2) of human_irr_calculator.py
human_calculate_agreement(val1, val2) ==
    IF pd_isna(val1) /\ pd_isna(val2) THEN TRUE
    ELSE IF pd_isna(val1) \/ pd_isna(val2) THEN FALSE
    ELSE IF floatable(val1) /\ floatable(val2) THEN val1.v = val2.v
    ELSE IF ~floatable(val1) /\ ~floatable(val2) THEN val1.v = val2.v
    ELSE FALSE

\* the (platform, variable) pairs calculate_three_way_agreement compares
three_way_cells(human, claude, chatgpt) ==
    {c \in (DOMAIN human \cap DOMAIN claude \cap DOMAIN chatgpt) \X VarSet :
        /\ c[2] \in DOMAIN human[c[1]]
        /\ c[2] \in DOMAIN claude[c[1]]
        /\ c[2] \in DOMAIN chatgpt[c[1]]}

\* variant: majority agreement decided by the human-Claude pair alone
three_way_class_first_pair(h_val, c_val, g_val) ==
    LET h_c == human_calculate_agreement(h_val, c_val)
        h_g == human_calculate_agreement(h_val, g_val)
        c_g == human_calculate_agreement(c_val, g_val)
    IN  IF h_c /\ h_g /\ c_g THEN "all"
        ELSE IF h_c THEN "two"
        ELSE "none"

\* the branch taken for one cell: "all", "two" or "none"
three_way_class(h_val, c_val, g_val) ==
    LET h_c == human_calculate_agreement(h_val, c_val)
        h_g == human_calculate_agreement(h_val, g_val)
        c_g == human_calculate_agreement(c_val, g_val)
    IN  IF h_c /\ h_g /\ c_g THEN "all"
        ELSE IF h_c \/ h_g \/ c_g THEN "two"
        ELSE "none"

\* all_agree / total if total > 0 else 0
rate_or_zero(count, total) == IF total > 0 THEN Q(count, total) ELSE QInt(0)

calculate_three_way_agreement(human, claude, chatgpt) ==
    LET cells == three_way_cells(human, claude, chatgpt)
        class(c) == three_way_class(human[c[1]][c[2]], claude[c[1]][c[2]],
                                    chatgpt[c[1]][c[2]])
        total == Cardinality(cells)
        all_agree == Cardinality({c \in cells : class(c) = "all"})
        two_agree == Cardinality({c \in cells : class(c) = "two"})
        none_agree == Cardinality({c \in cells : class(c) = "none"})
    IN  [kind |-> "human_three_way",
         platforms |-> Cardinality(DOMAIN human \cap DOMAIN claude \cap DOMAIN chatgpt),
         total_comparisons |-> total,
         all_three_agree |-> all_agree,
         two_agree |-> two_agree,
         none_agree |-> none_agree,
         full_agreement_rate |-> rate_or_zero(all_agree, total),
         majority_agreement_rate |-> rate_or_zero(all_agree + two_agree, total)]

\* the (platform, variable) cells two coders have in common
pairwise_cells(coder1_results, coder2_results) ==
    {c \in (DOMAIN coder1_results \cap DOMAIN coder2_results) \X VarSet :
        /\ c[2] \in DOMAIN coder1_results[c[1]]
        /\ c[2] \in DOMAIN coder2_results[c[1]]}

calculate_pairwise_irr(coder1_results, coder2_results, coder1_name, coder2_name) ==
    LET cells == pairwise_cells(coder1_results, coder2_results)
        agree(c) == human_calculate_agreement(coder1_results[c[1]][c[2]],
                                              coder2_results[c[1]][c[2]])
        agreements == Cardinality({c \in cells : agree(c)})
        disagreements == Cardinality({c \in cells : ~agree(c)})
        total == agreements + disagreements
    IN  [kind |-> "human_pairwise",
         coder1 |-> coder1_name,
         coder2 |-> coder2_name,
         platforms |-> Cardinality(DOMAIN coder1_results \cap DOMAIN coder2_results),
         agreements |-> agreements,
         disagreements |-> disagreements,
         total |-> total,
         agreement_rate |-> rate_or_zero(agreements, total),
         disagreement_details |-> {c \in cells : ~agree(c)}]

\* the values of a cell of a coding sheet
HumanCells == {RawNone, RawInt(0), RawInt(1), RawText(1)}

\* the codes of three coders for NumHumanCells platforms and one variable;
\* the last platform's variable may be absent from the ChatGPT codes
InitHuman ==
    /\ value_lists = <<>>
    /\ result = NoCall
    /\ analysis = NoAnalysis
    /\ human_dir = TRUE
    /\ \E m \in [(1..NumHumanCells) \X {1, 2, 3} -> HumanCells] : \E absent \in BOOLEAN :
          /\ absent => m[<<NumHumanCells, 3>>] = RawNone
          /\ human_results = [p \in 1..NumHumanCells |-> [x \in {"DEVP"} |-> m[<<p, 1>>]]]
          /\ claude_results = [p \in 1..NumHumanCells |-> [x \in {"DEVP"} |-> m[<<p, 2>>]]]
          /\ chatgpt_results =
                [p \in 1..NumHumanCells |->
                    [x \in IF absent /\ p = NumHumanCells THEN {} ELSE {"DEVP"} |->
                        m[<<p, 3>>]]]

\* main: three_way = calculate_three_way_agreement(human, claude, chatgpt)
ThreeWayAgreement ==
    /\ analysis = NoAnalysis
    /\ analysis' = calculate_three_way_agreement(human_results, claude_results,
                                                 chatgpt_results)
    /\ UNCHANGED <<value_lists, result, claude_results, chatgpt_results, human_results,
                   human_dir>>

\* main: the three calls of calculate_pairwise_irr
PairwiseIRR ==
    /\ analysis = NoAnalysis
    /\ \/ analysis' = calculate_pairwise_irr(human_results, claude_results,
                                             "Human", "Claude")
       \/ analysis' = calculate_pairwise_irr(human_results, chatgpt_results,
                                             "Human", "ChatGPT")
       \/ analysis' = calculate_pairwise_irr(claude_results, chatgpt_results,
                                             "Claude", "ChatGPT")
    /\ UNCHANGED <<value_lists, result, claude_results, chatgpt_results, human_results,
                   human_dir>>

NextHuman ==
    \/ ThreeWayAgreement
    \/ PairwiseIRR

SpecHuman == InitHuman /\ [][NextHuman]_vars

\* ------------------------------------------------------------------------
\* Claims about calculate_three_way_agreement (SpecHuman)
\* ------------------------------------------------------------------------
HumanDone == analysis # NoAnalysis /\ analysis.kind = "human_three_way"

\* the compared cells, read off the tables
ComparedCells ==
    {c \in (1..NumHumanCells) \X {"DEVP"} :
        /\ c[2] \in DOMAIN human_results[c[1]]
        /\ c[2] \in DOMAIN claude_results[c[1]]
        /\ c[2] \in DOMAIN chatgpt_results[c[1]]}

TripleOf(c) ==
    <<human_results[c[1]][c[2]], claude_results[c[1]][c[2]], chatgpt_results[c[1]][c[2]]>>

NonMissingTriple(t) == \A i \in 1..3 : t[i] # RawNone

\* how many of the three pairs of a triple hold equal values
EqualPairs(t) == Cardinality({pr \in {<<1, 2>>, <<1, 3>>, <<2, 3>>} : t[pr[1]] = t[pr[2]]})

CellsWith(k) == {c \in ComparedCells : EqualPairs(TripleOf(c)) = k}

ExampleTriples ==
    /\ ComparedCells = (1..3) \X {"DEVP"}
    /\ TripleOf(<<1, "DEVP">>) = <<RawInt(1), RawInt(1), RawInt(0)>>
    /\ TripleOf(<<2, "DEVP">>) = <<RawInt(1), RawInt(1), RawInt(1)>>
    /\ TripleOf(<<3, "DEVP">>) = <<RawInt(0), RawInt(0), RawInt(0)>>

\* C11: every compared triple of non-missing values falls in exactly one class:
\* all-agree when the three values are equal, majority-agree when exactly two
\* are equal, none-agree when they are pairwise different; the three counts add
\* up to total_comparisons; the full rate is all/total and the majority rate is
\* (all + two)/total, never below the full rate; the triples (1,1,0), (1,1,1),
\* (0,0,0) give 2/3 and 3/3.
C11_ThreeWayClassification ==
    HumanDone =>
        /\ analysis.total_comparisons = Cardinality(ComparedCells)
        /\ analysis.all_three_agree + analysis.two_agree + analysis.none_agree
              = analysis.total_comparisons
        /\ \A c \in ComparedCells : NonMissingTriple(TripleOf(c)) =>
              LET t == TripleOf(c)
                  k == EqualPairs(t)
              IN  /\ k \in {0, 1, 3}
                  /\ three_way_class(t[1], t[2], t[3])
                        = (IF k = 3 THEN "all" ELSE IF k = 1 THEN "two" ELSE "none")
        /\ (\A c \in ComparedCells : NonMissingTriple(TripleOf(c))) =>
              /\ analysis.all_three_agree = Cardinality(CellsWith(3))
              /\ analysis.two_agree = Cardinality(CellsWith(1))
              /\ analysis.none_agree = Cardinality(CellsWith(0))
        /\ analysis.total_comparisons > 0 =>
              /\ analysis.full_agreement_rate
                    = Q(analysis.all_three_agree, analysis.total_comparisons)
              /\ analysis.majority_agreement_rate
                    = Q(analysis.all_three_agree + analysis.two_agree,
                        analysis.total_comparisons)
              /\ QLe(analysis.full_agreement_rate, analysis.majority_agreement_rate)
        /\ ExampleTriples =>
              /\ analysis.full_agreement_rate = Q(2, 3)
              /\ analysis.majority_agreement_rate = Q(3, 3)

\* a finished run over triples of non-missing values in which each class occurs
C11_Witness ==
    /\ HumanDone
    /\ \A c \in ComparedCells : NonMissingTriple(TripleOf(c))
    /\ analysis.all_three_agree = 1
    /\ analysis.two_agree = 1
    /\ analysis.none_agree = 1

\* the worked example has been computed
C11_WitnessExample == HumanDone /\ ExampleTriples /\ analysis.full_agreement_rate = Q(2, 3)

\* ------------------------------------------------------------------------
\* Claims about the dataset summaries (Spec)
\* ------------------------------------------------------------------------
\* the variables whose record holds a value in the field f
Valued(vs, f) == {j \in DOMAIN vs : IsVal(vs[j][f])}

\* the arithmetic mean of the field f over the records that hold a value there
MeanOfValues(vs, f) ==
    LET valued == Valued(vs, f)
    IN  IF valued = {} THEN FNone
        ELSE QDiv(QSumF([j \in valued |-> vs[j][f]], valued), QInt(Cardinality(valued)))

\* summary field and the record field it averages
PairMeans ==
    {<<"overall_agreement", "agreement">>, <<"mean_kappa", "kappa">>,
     <<"mean_gwet_ac1", "gwet_ac1">>, <<"mean_kripp_alpha", "kripp_alpha">>,
     <<"mean_icc", "icc">>}
ThreeWayMeans ==
    {<<"overall_three_way_agreement", "three_way_agreement">>,
     <<"mean_fleiss_kappa", "fleiss_kappa">>, <<"mean_gwet_ac1", "gwet_ac1">>,
     <<"mean_kripp_alpha", "kripp_alpha">>, <<"mean_icc_3way", "icc_3way">>}

\* C12: in the summaries of compare_coders and compare_three_way every mean
\* statistic is the arithmetic mean over exactly the variables whose result for
\* that statistic is a value; Missing and Undefined results are left out (they
\* do not count as 0), and the mean is None when no variable has a value.
C12_MeansOverValues ==
    /\ \A r \in PairRuns : \A m \in PairMeans :
          r.summary[m[1]] = MeanOfValues(r.summary.variables, m[2])
    /\ ThreeWayDone => \A m \in ThreeWayMeans :
          analysis.three_way[m[1]] = MeanOfValues(analysis.three_way.variables, m[2])

\* a pairwise summary whose mean kappa skips an Undefined and a Missing kappa
\* and whose mean ICC is None for want of any value
C12_Witness ==
    \E r \in PairRuns :
        LET vs == r.summary.variables
        IN  /\ \E j \in VarIdx : vs[j].kappa = FNaN
            /\ \E j \in VarIdx : vs[j].kappa = FNone
            /\ \E j \in VarIdx : IsVal(vs[j].kappa) /\ vs[j].kappa # QInt(0)
            /\ IsVal(r.summary.mean_kappa)
            /\ r.summary.mean_icc = FNone

\* a three-way summary whose mean Fleiss kappa is None while agreement has a mean
C12_WitnessThreeWay ==
    /\ ThreeWayDone
    /\ analysis.three_way.mean_fleiss_kappa = FNone
    /\ IsVal(analysis.three_way.overall_three_way_agreement)
    /\ IsVal(analysis.three_way.mean_icc_3way)

\* ------------------------------------------------------------------------
\* Claims about the three kinds of result (SpecPair)
\* ------------------------------------------------------------------------
\* enough valid pairs for the statistic, all of them holding one and the same
\* value: the denominator of the statistic degenerates
Degenerate(atLeast) ==
    /\ Cardinality(ValidPos(value_lists[1], value_lists[2])) >= atLeast
    /\ Cardinality(PairCategories(value_lists[1], value_lists[2])) = 1

\* what the function returns for too little data
MissingResult == FNone

\* C13: every statistic keeps Undefined apart from Missing: with enough valid
\* input and a degenerate denominator (one observed category for AC1, De = 0
\* for Krippendorff's alpha, zero variance for ICC) the result differs from the
\* result returned for too few valid pairs.
C13_UndefinedDistinctFromMissing ==
    /\ (Called("calculate_gwet_ac1") /\ Degenerate(2)) => result.out # MissingResult
    /\ (Called("calculate_krippendorff_alpha") /\ Degenerate(2)) => result.out # MissingResult
    /\ (Called("calculate_icc") /\ Degenerate(3)) => result.out # MissingResult

\* what the code does keep apart: only Cohen's kappa returns a marker of its own
\* (nan) on degenerate input; AC1, alpha and ICC return None there as they do
\* for too little data
C13_OnlyKappaKeepsUndefined ==
    /\ (Called("calculate_kappa") /\ Degenerate(2)) => result.out = FNaN
    /\ (Called("calculate_gwet_ac1") /\ Degenerate(2)) => result.out = MissingResult
    /\ (Called("calculate_krippendorff_alpha") /\ Degenerate(2)) => result.out = MissingResult
    /\ (Called("calculate_icc") /\ Degenerate(3)) => result.out = MissingResult

C13_Witness ==
    /\ Called("calculate_gwet_ac1")
    /\ Degenerate(3)
    /\ result.out = MissingResult

\* ========================================================================
\* The eight statistic functions side by side, on two or three columns
\* ========================================================================
NextStats ==
    \/ CallAgreement
    \/ CallKappa
    \/ CallICC
    \/ CallICCMulti
    \/ CallGwetAC1
    \/ CallGwetAC1Multi
    \/ CallKrippendorff
    \/ CallFleissKappa

SpecStats == InitMulti /\ [][NextStats]_vars

\* ------------------------------------------------------------------------
\* Claims about the statistic functions on poor input (SpecStats)
\* ------------------------------------------------------------------------
PairFunctions ==
    {"calculate_agreement", "calculate_kappa", "calculate_icc", "calculate_gwet_ac1"}
StatFunctions ==
    PairFunctions \cup {"calculate_icc_multi", "calculate_gwet_ac1_multi",
                        "calculate_krippendorff_alpha", "calculate_fleiss_kappa"}

\* the columns a function reads
InputRaters(fn) == IF fn \in PairFunctions THEN {1, 2} ELSE DOMAIN value_lists
InputValues(fn) ==
    {value_lists[r][i] : r \in InputRaters(fn), i \in 1..Len(value_lists[1])} \ {None}

\* the subjects a function can use: rated by every rater, for alpha by at least two
Usable(fn) ==
    {i \in 1..Len(value_lists[1]) :
        IF fn = "calculate_krippendorff_alpha"
        THEN Cardinality({r \in InputRaters(fn) : value_lists[r][i] # None}) >= 2
        ELSE \A r \in InputRaters(fn) : value_lists[r][i] # None}

\* the least number of usable subjects each function asks for
MinSample(fn) ==
    IF fn = "calculate_agreement" THEN 1
    ELSE IF fn \in {"calculate_icc", "calculate_icc_multi"} THEN 3
    ELSE 2

EmptyInput == Len(value_lists[1]) = 0
AllMissing(fn) == InputValues(fn) = {}
Homogeneous(fn) == Cardinality(InputValues(fn)) = 1
Undersized(fn) == Cardinality(Usable(fn)) < MinSample(fn)
PoorInput(fn) == EmptyInput \/ AllMissing(fn) \/ Homogeneous(fn) \/ Undersized(fn)

\* a call returned normally: None, nan or a number
Returned == result.out.k \in {"None", "nan", "val"}

\* C14 as stated: no statistic function raises on empty, all-missing,
\* homogeneous or undersized input, and each returns a result that is not a
\* value in each of those cases.
C14_Original ==
    \A fn \in StatFunctions :
        (Called(fn) /\ PoorInput(fn)) => (Returned /\ ~IsVal(result.out))

\* C14: no statistic function raises on empty, all-missing, homogeneous or
\* undersized input; each returns a result that is not a value in each of those
\* cases, except that calculate_agreement returns the value 1 on homogeneous
\* input that has a valid pair.
C14_PoorInputGivesNoValue ==
    \A fn \in StatFunctions :
        (Called(fn) /\ PoorInput(fn)) =>
            /\ Returned
            /\ IF fn = "calculate_agreement" /\ Homogeneous(fn) /\ ~Undersized(fn)
               THEN result.out = QInt(1)
               ELSE ~IsVal(result.out)

\* a homogeneous input with enough usable subjects on which Fleiss' kappa is None
C14_Witness ==
    /\ Called("calculate_fleiss_kappa")
    /\ Homogeneous("calculate_fleiss_kappa")
    /\ ~Undersized("calculate_fleiss_kappa")
    /\ result.out = FNone

\* percent agreement on a homogeneous input with a valid pair
C14_WitnessAgreement ==
    /\ Called("calculate_agreement")
    /\ Homogeneous("calculate_agreement")
    /\ ~Undersized("calculate_agreement")
    /\ result.out = QInt(1)

\* ========================================================================
\* Reports and printed summaries: _kappa_interpretation,
\* generate_pairwise_report_section, generate_three_way_report, run_analysis
\* ========================================================================
NumReportPlatforms == 2
\* the arguments of _kappa_interpretation are drawn from the multiples of
\* 1/LabelGrid between -1 and 1
LabelGrid == 200

\* round(n / d) to the nearest integer, ties to even (d > 0)
round_half_even(n, d) ==
    LET q == n \div d
        r == n % d
    IN  IF 2 * r < d THEN q
        ELSE IF 2 * r > d THEN q + 1
        ELSE IF q % 2 = 0 THEN q ELSE q + 1

\* a piece of rendered text: what it says and, for a number, its digits
Text(s) == [text |-> s, v |-> 0]
\* no line is appended
NoLine == Text("")
\* f"{x:.3f}": v thousandths
format_3f(x) ==
    IF x = FNone THEN Text("TypeError")
    ELSE IF x = FNaN THEN Text("nan")
    ELSE [text |-> "number", v |-> round_half_even(x.n * 1000, x.d)]
\* f"{x:.1%}": v tenths of a percent
format_pct(x) ==
    IF x = FNone THEN Text("TypeError")
    ELSE IF x = FNaN THEN Text("nan%")
    ELSE [text |-> "percent", v |-> round_half_even(x.n * 1000, x.d)]

\* bool(x) of a float or None
truthy(x) == x # FNone /\ x # QInt(0)

\* variant: cut points at 0.8, 0.6, 0.4 and 0.2
kappa_interpretation_round_cuts(kappa) ==
    IF kappa = FNone THEN "N/A"
    ELSE IF kappa = FNaN THEN "Poor"
    ELSE IF QLe(Q(8, 10), kappa) THEN "Almost Perfect"
    ELSE IF QLe(Q(6, 10), kappa) THEN "Substantial"
    ELSE IF QLe(Q(4, 10), kappa) THEN "Moderate"
    ELSE IF QLe(Q(2, 10), kappa) THEN "Fair"
    ELSE IF QLe(QInt(0), kappa) THEN "Slight"
    ELSE "Poor"

kappa_interpretation(kappa) ==
    IF kappa = FNone THEN "N/A"
    ELSE IF kappa = FNaN THEN "Poor"
    ELSE IF QLe(Q(81, 100), kappa) THEN "Almost Perfect"
    ELSE IF QLe(Q(61, 100), kappa) THEN "Substantial"
    ELSE IF QLe(Q(41, 100), kappa) THEN "Moderate"
    ELSE IF QLe(Q(21, 100), kappa) THEN "Fair"
    ELSE IF QLe(QInt(0), kappa) THEN "Slight"
    ELSE "Poor"

\* f"{x:.1%}" if x is not None else "N/A"
pct_or_na(x) == IF x # FNone THEN format_pct(x) ELSE Text("N/A")
\* f"{x:.3f}" if x is not None else "N/A"
f3_or_na(x) == IF x # FNone THEN format_3f(x) ELSE Text("N/A")
\* "N/A", "perf." for nan, else f"{x:.3f}"
stat_cell(x) ==
    IF x # FNone THEN (IF x = FNaN THEN Text("perf.") ELSE format_3f(x)) ELSE Text("N/A")
\* a line that is appended only when the mean is not None
f3_line(x) == IF x # FNone THEN format_3f(x) ELSE NoLine
pct_line(x) == IF x # FNone THEN format_pct(x) ELSE NoLine
label_line(x) == IF x # FNone THEN Text(kappa_interpretation(x)) ELSE NoLine

\* one row of the variable-level table of a pairwise section
pairwise_row(var) ==
    [variable |-> var.variable,
     agreement |-> pct_or_na(var.agreement),
     gwet_ac1 |-> stat_cell(var.gwet_ac1),
     kripp_alpha |-> stat_cell(var.kripp_alpha),
     kappa |-> stat_cell(var.kappa),
     icc |-> f3_or_na(var.icc)]

\* the statistics rendered by generate_pairwise_report_section
generate_pairwise_report_section(summary) ==
    [overall_agreement |-> pct_or_na(summary.overall_agreement),
     mean_gwet_ac1 |-> f3_line(summary.mean_gwet_ac1),
     mean_gwet_ac1_label |-> label_line(summary.mean_gwet_ac1),
     mean_kripp_alpha |-> f3_line(summary.mean_kripp_alpha),
     mean_kripp_alpha_label |-> label_line(summary.mean_kripp_alpha),
     mean_kappa |-> f3_or_na(summary.mean_kappa),
     mean_kappa_label |-> label_line(summary.mean_kappa),
     mean_icc |-> f3_or_na(summary.mean_icc),
     rows |-> [j \in DOMAIN summary.variables |->
                  pairwise_row(summary.variables[j])]]

\* one row of the three-way variable table
three_way_row(var) ==
    [variable |-> var.variable,
     agreement |-> pct_or_na(var.three_way_agreement),
     gwet_ac1 |-> stat_cell(var.gwet_ac1),
     kripp_alpha |-> stat_cell(var.kripp_alpha),
     kappa |-> stat_cell(var.fleiss_kappa),
     icc |-> f3_or_na(var.icc_3way)]

\* the statistics rendered by generate_three_way_report: the three-way part,
\* the three pairwise sections and the comparison matrix
generate_three_way_report(a) ==
    [overall_agreement |-> pct_line(a.three_way.overall_three_way_agreement),
     mean_gwet_ac1 |-> f3_line(a.three_way.mean_gwet_ac1),
     mean_gwet_ac1_label |-> label_line(a.three_way.mean_gwet_ac1),
     mean_kripp_alpha |-> f3_line(a.three_way.mean_kripp_alpha),
     mean_kripp_alpha_label |-> label_line(a.three_way.mean_kripp_alpha),
     mean_kappa |-> f3_line(a.three_way.mean_fleiss_kappa),
     mean_kappa_label |-> label_line(a.three_way.mean_fleiss_kappa),
     mean_icc |-> f3_line(a.three_way.mean_icc_3way),
     rows |-> [j \in DOMAIN a.three_way.variables |->
                  three_way_row(a.three_way.variables[j])],
     pairwise |-> [pr \in DOMAIN PAIRS |-> generate_pairwise_report_section(a.pairwise[pr])],
     matrix |-> [j \in DOMAIN a.three_way.variables |->
                   [pr \in DOMAIN PAIRS \cup {"three_way"} |->
                       IF pr = "three_way"
                       THEN pct_or_na(a.three_way.variables[j].three_way_agreement)
                       ELSE pct_or_na(a.pairwise[pr].variables[j].agreement)]],
     matrix_overall |-> [pr \in DOMAIN PAIRS \cup {"three_way"} |->
                           IF pr = "three_way"
                           THEN pct_or_na(a.three_way.overall_three_way_agreement)
                           ELSE pct_or_na(a.pairwise[pr].overall_agreement)]]

\* the summary run_analysis prints after a two-way comparison
print_summary(irr_summary) ==
    [overall_agreement |->
        IF truthy(irr_summary.overall_agreement)
        THEN format_pct(irr_summary.overall_agreement) ELSE Text("N/A"),
     mean_kappa |->
        IF truthy(irr_summary.mean_kappa)
        THEN format_3f(irr_summary.mean_kappa) ELSE Text("N/A"),
     mean_icc |->
        IF truthy(irr_summary.mean_icc)
        THEN format_3f(irr_summary.mean_icc) ELSE Text("N/A")]

\* the summary run_analysis prints after a three-way comparison: the pairwise
\* lines format the overall agreement whatever it is
print_summary_3way(a) ==
    [overall_agreement |-> pct_line(a.three_way.overall_three_way_agreement),
     mean_gwet_ac1 |-> f3_line(a.three_way.mean_gwet_ac1),
     mean_kripp_alpha |-> f3_line(a.three_way.mean_kripp_alpha),
     mean_kappa |-> f3_line(a.three_way.mean_fleiss_kappa),
     pairwise |-> [pr \in DOMAIN PAIRS |->
                     [overall_agreement |-> format_pct(a.pairwise[pr].overall_agreement),
                      mean_kappa |-> IF truthy(a.pairwise[pr].mean_kappa)
                                     THEN format_3f(a.pairwise[pr].mean_kappa)
                                     ELSE NoLine]]]

\* what a run of run_analysis leaves behind: the analysis, the report written
\* to the report file, the printed summary and the exception it ended with
two_way_run(irr_summary) ==
    [kind |-> "two_way_run",
     summary |-> irr_summary,
     report |-> generate_pairwise_report_section(irr_summary),
     printed |-> print_summary(irr_summary),
     raised |-> ""]

three_way_run(a) ==
    [kind |-> "three_way_run",
     analysis |-> a,
     report |-> generate_three_way_report(a),
     printed |-> print_summary_3way(a),
     raised |-> IF \E pr \in DOMAIN PAIRS : a.pairwise[pr].overall_agreement = FNone
                THEN "TypeError" ELSE ""]

\* the tables of a run with a report: one variable coded on NumReportPlatforms
\* platforms by two or by three coders, any rating possibly missing; or no
\* tables and an argument for _kappa_interpretation
InitReport ==
    /\ result = NoCall
    /\ analysis = NoAnalysis
    /\ \/ /\ value_lists = <<>>
          /\ \E h \in BOOLEAN :
                LET P == 1..NumReportPlatforms
                IN  \E m \in [P \X {"DEVP"} \X {1, 2, 3} -> RawCells] :
                      /\ human_dir = h
                      /\ ~h => \A p \in P : m[<<p, "DEVP", 3>>] = RawNone
                      /\ claude_results = TableOf(P, {"DEVP"}, m, 1)
                      /\ chatgpt_results = TableOf(P, {"DEVP"}, m, 2)
                      /\ human_results = IF h THEN TableOf(P, {"DEVP"}, m, 3) ELSE NoTable
       \/ /\ human_dir = FALSE
          /\ claude_results = NoTable
          /\ chatgpt_results = NoTable
          /\ human_results = NoTable
          /\ \E x \in {FNone} \cup {Q(k, LabelGrid) : k \in (-LabelGrid)..LabelGrid} :
                value_lists = <<x>>

\* run_analysis without a human directory, from the comparison to the printed summary
RunAnalysis ==
    /\ analysis = NoAnalysis
    /\ claude_results # NoTable
    /\ ~human_dir
    /\ analysis' = two_way_run(compare_coders(claude_results, chatgpt_results,
                                              "Claude", "ChatGPT"))
    /\ UNCHANGED <<value_lists, result, claude_results, chatgpt_results, human_results,
                   human_dir>>

\* run_analysis with a human directory
RunAnalysisThreeWay ==
    /\ analysis = NoAnalysis
    /\ claude_results # NoTable
    /\ human_dir
    /\ analysis' = three_way_run(compare_three_way(claude_results, chatgpt_results,
                                                   human_results))
    /\ UNCHANGED <<value_lists, result, claude_results, chatgpt_results, human_results,
                   human_dir>>

\* one call of _kappa_interpretation
Interpret ==
    /\ analysis = NoAnalysis
    /\ value_lists # <<>>
    /\ analysis' = [kind |-> "label", label |-> kappa_interpretation(value_lists[1])]
    /\ UNCHANGED <<value_lists, result, claude_results, chatgpt_results, human_results,
                   human_dir>>

NextReport ==
    \/ RunAnalysis
    \/ RunAnalysisThreeWay
    \/ Interpret

SpecReport == InitReport /\ [][NextReport]_vars

\* ------------------------------------------------------------------------
\* Claims about reports and labels (SpecReport)
\* ------------------------------------------------------------------------
RunDone == analysis.kind \in {"two_way_run", "three_way_run"}

\* each statistic of a pairwise summary next to the text its section shows for it
SectionPairs(s, sec) ==
    {<<s.overall_agreement, sec.overall_agreement>>,
     <<s.mean_gwet_ac1, sec.mean_gwet_ac1>>,
     <<s.mean_kripp_alpha, sec.mean_kripp_alpha>>,
     <<s.mean_kappa, sec.mean_kappa>>,
     <<s.mean_icc, sec.mean_icc>>}
    \cup UNION {{<<s.variables[j].agreement, sec.rows[j].agreement>>,
                 <<s.variables[j].gwet_ac1, sec.rows[j].gwet_ac1>>,
                 <<s.variables[j].kripp_alpha, sec.rows[j].kripp_alpha>>,
                 <<s.variables[j].kappa, sec.rows[j].kappa>>,
                 <<s.variables[j].icc, sec.rows[j].icc>>} : j \in DOMAIN s.variables}

\* the same for the three-way part of the three-way report
ThreeWayPairs(tw, rep) ==
    {<<tw.overall_three_way_agreement, rep.overall_agreement>>,
     <<tw.overall_three_way_agreement, rep.matrix_overall["three_way"]>>,
     <<tw.mean_gwet_ac1, rep.mean_gwet_ac1>>,
     <<tw.mean_kripp_alpha, rep.mean_kripp_alpha>>,
     <<tw.mean_fleiss_kappa, rep.mean_kappa>>,
     <<tw.mean_icc_3way, rep.mean_icc>>}
    \cup UNION {{<<tw.variables[j].three_way_agreement, rep.rows[j].agreement>>,
                 <<tw.variables[j].three_way_agreement, rep.matrix[j]["three_way"]>>,
                 <<tw.variables[j].gwet_ac1, rep.rows[j].gwet_ac1>>,
                 <<tw.variables[j].kripp_alpha, rep.rows[j].kripp_alpha>>,
                 <<tw.variables[j].fleiss_kappa, rep.rows[j].kappa>>,
                 <<tw.variables[j].icc_3way, rep.rows[j].icc>>} : j \in DOMAIN tw.variables}

\* every statistic a finished run rendered, in its report or in its printed
\* summary, next to the text shown for it
Rendered ==
    IF analysis.kind = "two_way_run"
    THEN SectionPairs(analysis.summary, analysis.report)
         \cup {<<analysis.summary.overall_agreement, analysis.printed.overall_agreement>>,
               <<analysis.summary.mean_kappa, analysis.printed.mean_kappa>>,
               <<analysis.summary.mean_icc, analysis.printed.mean_icc>>}
    ELSE IF analysis.kind = "three_way_run"
    THEN LET a == analysis.analysis
             tw == a.three_way
         IN  ThreeWayPairs(tw, analysis.report)
             \cup UNION {SectionPairs(a.pairwise[pr], analysis.report.pairwise[pr])
                            : pr \in DOMAIN PAIRS}
             \cup {<<a.pairwise[pr].overall_agreement,
                     analysis.report.matrix_overall[pr]>> : pr \in DOMAIN PAIRS}
             \cup {<<tw.overall_three_way_agreement, analysis.printed.overall_agreement>>,
                   <<tw.mean_gwet_ac1, analysis.printed.mean_gwet_ac1>>,
                   <<tw.mean_kripp_alpha, analysis.printed.mean_kripp_alpha>>,
                   <<tw.mean_fleiss_kappa, analysis.printed.mean_kappa>>}
             \cup {<<a.pairwise[pr].overall_agreement,
                     analysis.printed.pairwise[pr].overall_agreement>> : pr \in DOMAIN PAIRS}
             \cup {<<a.pairwise[pr].mean_kappa,
                     analysis.printed.pairwise[pr].mean_kappa>> : pr \in DOMAIN PAIRS}
    ELSE {}

\* the texts shown for the statistics that are None or nan
ShownForNoValue == {r[2].text : r \in {q \in Rendered : ~IsVal(q[1])}}

\* C15: every report and printed summary of a run shows "N/A" for each
\* statistic that is Missing or Undefined, never a number, another label or a
\* crash, an overall agreement and a per-variable kappa included.
C15_NoValueRendersNA ==
    RunDone => (analysis.raised = "" /\ ShownForNoValue \subseteq {"N/A"})

\* what the code shows for a statistic without a value: "N/A", "perf." for a
\* nan in a variable table, no line at all for a mean, or the TypeError that
\* ends the printed three-way summary; never a number
C15_NoValueNeverANumber ==
    RunDone =>
        /\ ShownForNoValue \subseteq {"N/A", "perf.", "", "TypeError"}
        /\ \A r \in Rendered : (r[1] = FNaN) => r[2].text = "perf."
        /\ ("TypeError" \in ShownForNoValue) <=> (analysis.raised = "TypeError")
        /\ analysis.kind = "two_way_run" => analysis.raised = ""

\* a three-way run whose printed summary raises: one pair has no overall agreement
C15_Witness ==
    /\ RunDone
    /\ analysis.raised = "TypeError"
    /\ "perf." \in ShownForNoValue

Labelled == analysis.kind = "label"
\* lo < x < hi
Between(lo, x, hi) == IsVal(x) /\ QLt(lo, x) /\ QLt(x, hi)
\* lo <= x < hi
InBand(lo, x, hi) == IsVal(x) /\ QLe(lo, x) /\ QLt(x, hi)

\* C18 as stated: a value strictly inside one of the bands below 0, 0-0.2,
\* 0.2-0.4, 0.4-0.6, 0.6-0.8, 0.8-1.0 gets the label of that band, and None
\* gets "N/A".
C18_Original ==
    Labelled =>
        LET x == value_lists[1]
            l == analysis.label
        IN  /\ x = FNone => l = "N/A"
            /\ (IsVal(x) /\ QLt(x, QInt(0))) => l = "Poor"
            /\ Between(QInt(0), x, Q(2, 10)) => l = "Slight"
            /\ Between(Q(2, 10), x, Q(4, 10)) => l = "Fair"
            /\ Between(Q(4, 10), x, Q(6, 10)) => l = "Moderate"
            /\ Between(Q(6, 10), x, Q(8, 10)) => l = "Substantial"
            /\ Between(Q(8, 10), x, QInt(1)) => l = "Almost Perfect"

\* C18: _kappa_interpretation labels x by the Landis and Koch cut points: Poor
\* below 0, Slight from 0 to below 0.21, Fair from 0.21 to below 0.41, Moderate
\* from 0.41 to below 0.61, Substantial from 0.61 to below 0.81, Almost Perfect
\* from 0.81 on; None is labelled "N/A"; and a run's analysis is the one
\* compare_coders or compare_three_way computes, whatever labels its report shows.
C18_LandisKochCutPoints ==
    /\ Labelled =>
          LET x == value_lists[1]
              l == analysis.label
          IN  /\ x = FNone => l = "N/A"
              /\ (IsVal(x) /\ QLt(x, QInt(0))) => l = "Poor"
              /\ InBand(QInt(0), x, Q(21, 100)) => l = "Slight"
              /\ InBand(Q(21, 100), x, Q(41, 100)) => l = "Fair"
              /\ InBand(Q(41, 100), x, Q(61, 100)) => l = "Moderate"
              /\ InBand(Q(61, 100), x, Q(81, 100)) => l = "Substantial"
              /\ (IsVal(x) /\ QLe(Q(81, 100), x)) => l = "Almost Perfect"
    /\ analysis.kind = "two_way_run" =>
          analysis.summary = compare_coders(claude_results, chatgpt_results,
                                            "Claude", "ChatGPT")
    /\ analysis.kind = "three_way_run" =>
          analysis.analysis = compare_three_way(claude_results, chatgpt_results,
                                                human_results)

\* a value just above 0.2 that is still labelled Slight
C18_Witness ==
    /\ Labelled
    /\ value_lists[1] = Q(41, 200)
    /\ analysis.label = "Slight"

\* ========================================================================
\* _normalize_value on single raw values
\* ========================================================================
MaxTenths == 25

RawValues ==
    {RawNone, [t |-> "nan", v |-> 0], [t |-> "nan_string", v |-> 0]}
    \cup {[t |-> "blank_string", v |-> k] : k \in 0..2}
    \cup {[t |-> "inf", v |-> k] : k \in {-1, 1}}
    \cup {RawText(k) : k \in 1..2}
    \cup {[t |-> ty, v |-> k] : ty \in {"number", "numeric_string"},
                                k \in (-MaxTenths)..MaxTenths}

InitNormalize ==
    /\ value_lists \in {<<v>> : v \in RawValues}
    /\ result = NoCall
    /\ claude_results = NoTable
    /\ chatgpt_results = NoTable
    /\ human_results = NoTable
    /\ human_dir = FALSE
    /\ analysis = NoAnalysis

\* one call of _normalize_value(v, var)
Normalize ==
    \E var \in VarSet : Call("_normalize_value", var, normalize_value(value_lists[1], var))

NextNormalize ==
    \/ Normalize

SpecNormalize == InitNormalize /\ [][NextNormalize]_vars

\* ------------------------------------------------------------------------
\* Claims about _normalize_value (SpecNormalize)
\* ------------------------------------------------------------------------
\* absent, blank, NaN, or not readable as a number
NotANumber(v) == v.t \in {"None", "blank_string", "nan", "nan_string", "string", "inf"}

\* C16: _normalize_value never raises, and it returns None (never 0 nor any
\* other number) for every raw value that is absent, a blank string, NaN or not
\* parseable as a number.
C16_UnusableIsNone ==
    Called("_normalize_value") =>
        /\ result.out # OverflowError
        /\ NotANumber(value_lists[1]) => result.out = None

\* what the code does: None for every such value but an infinity, on which
\* the OverflowError of int() leaves the function
C16_NoneUnlessInfinite ==
    Called("_normalize_value") =>
        LET v == value_lists[1]
        IN  /\ (NotANumber(v) /\ v.t # "inf") => result.out = None
            /\ v.t = "inf" <=> result.out = OverflowError
            /\ ~NotANumber(v) => result.out = Some(int_of_tenths(v.v))

\* a call on an infinity
C16_Witness ==
    /\ Called("_normalize_value")
    /\ value_lists[1].t = "inf"
    /\ result.out = OverflowError

\* ------------------------------------------------------------------------
\* Claims about the statistics chosen by variable type (Spec)
\* ------------------------------------------------------------------------
\* the normalised column of table t for variable x over the listed platforms
Col(t, ids, x) == [i \in 1..Len(ids) |-> Rating(t, ids[i], x)]
Categorical(x) == InList(x, BINARY_VARIABLES) \/ InList(x, ORDINAL_VARIABLES)
CategoricalLevel(x) == IF InList(x, ORDINAL_VARIABLES) THEN "ordinal" ELSE "nominal"
\* the rows of three columns in which no rating is None
CompleteRowsOf(c, g, h) ==
    SelectIdx([i \in 1..Len(c) |-> <<c[i], g[i], h[i]>>],
              [i \in 1..Len(c) |-> c[i] # None /\ g[i] # None /\ h[i] # None], 1)

PairRecordByType(rec, x, c1, c2) ==
    /\ rec.agreement = calculate_agreement(c1, c2)
    /\ Categorical(x) =>
          /\ rec.kappa = calculate_kappa(c1, c2)
          /\ rec.gwet_ac1 = calculate_gwet_ac1(c1, c2)
          /\ rec.kripp_alpha = calculate_krippendorff_alpha(<<c1, c2>>, CategoricalLevel(x))
          /\ rec.icc = FNone
    /\ InList(x, COUNT_VARIABLES) =>
          /\ rec.icc = calculate_icc(c1, c2)
          /\ rec.kripp_alpha = calculate_krippendorff_alpha(<<c1, c2>>, "ratio")
          /\ rec.kappa = FNone
          /\ rec.gwet_ac1 = FNone

ThreeWayRecordByType(rec, x, c, g, h) ==
    /\ rec.three_way_agreement = three_way_agree(CompleteRowsOf(c, g, h))
    /\ Categorical(x) =>
          /\ rec.fleiss_kappa = calculate_fleiss_kappa(CompleteRowsOf(c, g, h))
          /\ rec.gwet_ac1 = calculate_gwet_ac1_multi(CompleteRowsOf(c, g, h))
          /\ rec.kripp_alpha = calculate_krippendorff_alpha(<<c, g, h>>, CategoricalLevel(x))
          /\ rec.icc_3way = FNone
    /\ InList(x, COUNT_VARIABLES) =>
          /\ rec.icc_3way = calculate_icc_multi(<<c, g, h>>)
          /\ rec.kripp_alpha = calculate_krippendorff_alpha(<<c, g, h>>, "ratio")
          /\ rec.fleiss_kappa = FNone
          /\ rec.gwet_ac1 = FNone

\* C17: the type of a variable selects its statistics: a binary or ordinal
\* variable gets Kappa (Fleiss' Kappa for three raters), AC1 and Alpha at the
\* nominal resp. ordinal level and no ICC; a count variable gets ICC and Alpha
\* at the ratio level and neither Kappa nor AC1; percent agreement is computed
\* for every variable.
C17_TypeSelectsStatistics ==
    /\ \A r \in PairRuns : \A j \in VarIdx :
          PairRecordByType(r.summary.variables[j], PRIMARY_VARIABLES[j],
                           Col(r.t1, r.summary.platform_ids, PRIMARY_VARIABLES[j]),
                           Col(r.t2, r.summary.platform_ids, PRIMARY_VARIABLES[j]))
    /\ ThreeWayDone => \A j \in VarIdx :
          ThreeWayRecordByType(analysis.three_way.variables[j], PRIMARY_VARIABLES[j],
              Col(claude_results, analysis.three_way.platform_ids, PRIMARY_VARIABLES[j]),
              Col(chatgpt_results, analysis.three_way.platform_ids, PRIMARY_VARIABLES[j]),
              Col(human_results, analysis.three_way.platform_ids, PRIMARY_VARIABLES[j]))

\* a three-way run on a count variable: ICC and an Alpha that differs from the
\* nominal one, in a pairwise record and in the three-way record
C17_Witness ==
    /\ ThreeWayDone
    /\ \E j \in VarIdx :
          LET x == PRIMARY_VARIABLES[j]
              rec == analysis.three_way.variables[j]
              prec == analysis.pairwise["claude_vs_human"].variables[j]
          IN  /\ InList(x, COUNT_VARIABLES)
              /\ IsVal(rec.icc_3way) /\ IsVal(rec.kripp_alpha) /\ IsVal(rec.three_way_agreement)
              /\ IsVal(prec.icc) /\ IsVal(prec.kripp_alpha)
              /\ prec.kripp_alpha #
                    calculate_krippendorff_alpha(
                        <<Col(claude_results, analysis.three_way.platform_ids, x),
                          Col(human_results, analysis.three_way.platform_ids, x)>>, "nominal")

\* a three-way run on a binary variable with Fleiss' Kappa, AC1, Alpha and Kappa
C17_WitnessBinary ==
    /\ ThreeWayDone
    /\ \E j \in VarIdx :
          LET rec == analysis.three_way.variables[j]
              prec == analysis.pairwise["claude_vs_chatgpt"].variables[j]
          IN  /\ InList(PRIMARY_VARIABLES[j], BINARY_VARIABLES)
              /\ IsVal(rec.fleiss_kappa) /\ IsVal(rec.gwet_ac1) /\ IsVal(rec.kripp_alpha)
              /\ IsVal(prec.kappa) /\ IsVal(prec.gwet_ac1) /\ IsVal(prec.kripp_alpha)

\* ------------------------------------------------------------------------
\* Claims about the counts in the summaries (Spec)
\* ------------------------------------------------------------------------
\* the count of Undefined results a pairwise summary carries for a statistic:
\* n_kappa_perfect_agreement for Kappa, None for the others
PairUndefinedCount(summary, stat) ==
    IF stat = "kappa" /\ "n_kappa_perfect_agreement" \in DOMAIN summary
    THEN Some(summary.n_kappa_perfect_agreement)
    ELSE None
\* the three-way summary has n_fleiss_valid, n_ac1_valid and n_kripp_valid only
ThreeWayUndefinedCount(summary, stat) == None

\* the variables a statistic applies to
Applicable(stat) ==
    {j \in VarIdx :
        IF stat \in {"kappa", "fleiss_kappa", "gwet_ac1"} THEN Categorical(PRIMARY_VARIABLES[j])
        ELSE IF stat \in {"icc", "icc_3way"} THEN InList(PRIMARY_VARIABLES[j], COUNT_VARIABLES)
        ELSE TRUE}

PairStatistics == {"kappa", "gwet_ac1", "kripp_alpha", "icc"}
ThreeWayStatistics == {"fleiss_kappa", "gwet_ac1", "kripp_alpha", "icc_3way"}

\* the fields of the two summaries
PairSummaryFields ==
    {"coder1", "coder2", "n_platforms", "platform_ids", "n_variables", "overall_agreement",
     "mean_kappa", "n_kappa_valid", "n_kappa_perfect_agreement", "mean_gwet_ac1",
     "n_ac1_valid", "mean_kripp_alpha", "n_kripp_valid", "mean_icc", "variables"}
ThreeWaySummaryFields ==
    {"n_platforms", "platform_ids", "n_variables", "overall_three_way_agreement",
     "mean_fleiss_kappa", "n_fleiss_valid", "mean_gwet_ac1", "n_ac1_valid",
     "mean_kripp_alpha", "n_kripp_valid", "mean_icc_3way", "variables"}

\* C19: the summaries of compare_coders and compare_three_way carry, for
\* Kappa / Fleiss' Kappa, AC1, Alpha and ICC, the number of variables skipped
\* as Undefined, and for each statistic the numbers of Value, Undefined and
\* Missing results add up to the number of variables the statistic applies to.
C19_UndefinedCounted ==
    /\ \A r \in PairRuns : \A stat \in PairStatistics :
          LET vs == r.summary.variables
              app == Applicable(stat)
              valued == {j \in app : IsVal(vs[j][stat])}
              missing == {j \in app : vs[j][stat] = FNone}
          IN  /\ PairUndefinedCount(r.summary, stat) # None
              /\ Cardinality(valued) + Val(PairUndefinedCount(r.summary, stat))
                    + Cardinality(missing) = Cardinality(app)
    /\ ThreeWayDone => \A stat \in ThreeWayStatistics :
          ThreeWayUndefinedCount(analysis.three_way, stat) # None

\* what the summaries do carry: a pairwise summary counts the Undefined Kappas,
\* and with the Kappas that have a value and those that are None they add up to
\* the categorical variables; no other field of either summary counts
\* Undefined results
C19_OnlyKappaCounted ==
    /\ \A r \in PairRuns :
          LET vs == r.summary.variables
              app == Applicable("kappa")
          IN  /\ DOMAIN r.summary = PairSummaryFields
              /\ r.summary.n_kappa_valid = Cardinality({j \in app : IsVal(vs[j].kappa)})
              /\ r.summary.n_kappa_perfect_agreement
                    = Cardinality({j \in app : vs[j].kappa = FNaN})
              /\ r.summary.n_kappa_valid + r.summary.n_kappa_perfect_agreement
                    + Cardinality({j \in app : vs[j].kappa = FNone}) = Cardinality(app)
    /\ ThreeWayDone => DOMAIN analysis.three_way = ThreeWaySummaryFields

\* a three-way run whose variable has a single category among the complete
\* rows: Fleiss' Kappa has no value and the summary holds no count of it
C19_Witness ==
    /\ ThreeWayDone
    /\ \E j \in VarIdx :
          /\ Categorical(PRIMARY_VARIABLES[j])
          /\ analysis.three_way.variables[j].n >= 2
          /\ analysis.three_way.variables[j].three_way_agreement = QInt(1)
          /\ analysis.three_way.variables[j].fleiss_kappa = FNone
    /\ analysis.three_way.n_fleiss_valid = 0

\* ------------------------------------------------------------------------
\* Claims about the pooled values of Krippendorff's alpha (SpecMulti)
\* ------------------------------------------------------------------------
\* every rated cell, whatever the number of ratings of its subject
RatedCells == {c \in Subjects \X Raters : value_lists[c[2]][c[1]] # None}
AllRatedPairs == {p \in RatedCells \X RatedCells : CellLt(p[1], p[2])}
\* the distance with ordinal ranks taken over every rated value
DistOverAll(level, a, b) ==
    LET universe == {CellVal(c) : c \in RatedCells}
        rk(v) == Cardinality({u \in universe : u < v})
    IN  IF level = "nominal" THEN (IF a = b THEN 0 ELSE 1)
        ELSE IF level = "ordinal" THEN (rk(a) - rk(b)) * (rk(a) - rk(b))
        ELSE (a - b) * (a - b)
DistSumOverAll(level, P) ==
    SumF([p \in P |-> DistOverAll(level, CellVal(p[1]), CellVal(p[2]))], P)
\* the subjects with exactly one rating
SingleRated == {i \in Subjects : Cardinality({r \in Raters : value_lists[r][i] # None}) = 1}

\* C21 as stated: Do is the mean distance within the subjects that have at
\* least 2 ratings, De the mean distance over every non-missing value of the
\* variable, the single rating of a subject included; alpha is 1 - Do/De.
C21_Original ==
    Called("calculate_krippendorff_alpha") =>
        LET lvl == result.level
            Do == Q(DistSumOverAll(lvl, WithinPairs), Cardinality(WithinPairs))
            De == Q(DistSumOverAll(lvl, AllRatedPairs), Cardinality(AllRatedPairs))
        IN  (Cardinality(Qualifying) >= 2 /\ DistSumOverAll(lvl, AllRatedPairs) > 0) =>
                result.out = QSub(QInt(1), QDiv(Do, De))

\* C21: De is the mean pairwise distance over the non-missing values of the
\* subjects that have at least 2 ratings, the same subjects Do is taken over;
\* the value of a subject with a single rating enters neither, so that
\* (1 - alpha) * De = Do whenever alpha is a value, and alpha is None when
\* those subjects' values are all equal.
C21_DePoolsQualifyingSubjects ==
    Called("calculate_krippendorff_alpha") =>
        LET lvl == result.level
            Do == Q(DistSum(lvl, WithinPairs), Cardinality(WithinPairs))
            De == Q(DistSum(lvl, AllPairs), Cardinality(AllPairs))
        IN  /\ IsVal(result.out) => QMul(QSub(QInt(1), result.out), De) = Do
            /\ (Cardinality(Qualifying) >= 2 /\ DistSum(lvl, AllPairs) = 0) =>
                  result.out = FNone

\* a call in which a subject with a single rating would change De
C21_Witness ==
    /\ Called("calculate_krippendorff_alpha")
    /\ SingleRated # {}
    /\ IsVal(result.out)
    /\ Q(DistSum(result.level, AllPairs), Cardinality(AllPairs))
          # Q(DistSumOverAll(result.level, AllRatedPairs), Cardinality(AllRatedPairs))

\* ------------------------------------------------------------------------
\* Claims relating the statistic functions to one another (SpecStats)
\* ------------------------------------------------------------------------
TwoRaters == Len(value_lists) = 2

\* C22: on two aligned sequences A, B calculate_gwet_ac1_multi applied to the
\* two-column matrix of rows [A[i], B[i]] returns what calculate_gwet_ac1(A, B)
\* returns: None, or the same value.
C22_MultiAC1ExtendsPairwise ==
    TwoRaters =>
        /\ Called("calculate_gwet_ac1_multi") =>
              result.out = calculate_gwet_ac1(value_lists[1], value_lists[2])
        /\ Called("calculate_gwet_ac1") =>
              result.out = calculate_gwet_ac1_multi(matrix_of(value_lists))

\* a multi-rater call on two columns with a missing entry that returns a value
\* other than 0 and 1
C22_Witness ==
    /\ TwoRaters
    /\ Called("calculate_gwet_ac1_multi")
    /\ \E i \in Subjects : value_lists[1][i] = None
    /\ IsVal(result.out)
    /\ result.out \notin {QInt(0), QInt(1)}

\* C23: on two aligned integer sequences with at least 3 valid pairs
\* calculate_icc_multi returns what calculate_icc returns: None, or the same
\* value.
C23_MultiICCExtendsPairwise ==
    (TwoRaters /\ Cardinality(ValidPos(value_lists[1], value_lists[2])) >= 3) =>
        /\ Called("calculate_icc_multi") =>
              result.out = calculate_icc(value_lists[1], value_lists[2])
        /\ Called("calculate_icc") =>
              result.out = calculate_icc_multi(value_lists)

\* what the two functions do share: on fewer than 3 valid pairs both return
\* None, and one returns None on 3 or more exactly when the other does
C23_SameDefinedness ==
    TwoRaters =>
        /\ Called("calculate_icc_multi") =>
              (result.out = FNone <=> calculate_icc(value_lists[1], value_lists[2]) = FNone)
        /\ Called("calculate_icc") =>
              (result.out = FNone <=> calculate_icc_multi(value_lists) = FNone)

\* a two-column call on which the two functions return different values
C23_Witness ==
    /\ TwoRaters
    /\ Called("calculate_icc_multi")
    /\ IsVal(result.out)
    /\ IsVal(calculate_icc(value_lists[1], value_lists[2]))
    /\ result.out # calculate_icc(value_lists[1], value_lists[2])

\* ---------------------------------------------------------------------------
\* C24: missing values in the human comparison
\* ---------------------------------------------------------------------------

PairwiseDone == analysis # NoAnalysis /\ analysis.kind = "human_pairwise"

CoderTable(name) ==
    IF name = "Human" THEN human_results
    ELSE IF name = "Claude" THEN claude_results
    ELSE chatgpt_results

\* the cells both coders of the finished pairwise run carry, read off the tables
PairCells(n1, n2) ==
    {c \in (1..NumHumanCells) \X {"DEVP"} :
        /\ c[2] \in DOMAIN CoderTable(n1)[c[1]]
        /\ c[2] \in DOMAIN CoderTable(n2)[c[1]]}

PairOf(n1, n2, c) == <<CoderTable(n1)[c[1]][c[2]], CoderTable(n2)[c[1]][c[2]]>>

ValidPairCells(n1, n2) ==
    {c \in PairCells(n1, n2) : PairOf(n1, n2, c)[1] # RawNone /\ PairOf(n1, n2, c)[2] # RawNone}

NonMissingCount(t) == Cardinality({i \in 1..3 : t[i] # RawNone})

ClassifiableCells == {c \in ComparedCells : NonMissingCount(TripleOf(c)) >= 2}

\* C24: a missing value never counts as agreeing: calculate_pairwise_irr
\* leaves every cell with a missing value out of total, agreements and
\* disagreements; calculate_three_way_agreement classifies only the triples
\* with at least two non-missing values; with no valid comparison the rates
\* are Missing rather than 0.
C24_MissingNeverCounted ==
    /\ PairwiseDone =>
          LET valid == ValidPairCells(analysis.coder1, analysis.coder2)
              equal == {c \in valid :
                           PairOf(analysis.coder1, analysis.coder2, c)[1]
                              = PairOf(analysis.coder1, analysis.coder2, c)[2]}
          IN  /\ analysis.total = Cardinality(valid)
              /\ analysis.agreements = Cardinality(equal)
              /\ analysis.disagreements = Cardinality(valid \ equal)
              /\ valid = {} => analysis.agreement_rate = FNone
    /\ HumanDone =>
          /\ analysis.total_comparisons = Cardinality(ClassifiableCells)
          /\ ClassifiableCells = {} =>
                /\ analysis.full_agreement_rate = FNone
                /\ analysis.majority_agreement_rate = FNone

\* a finished pairwise run over cells of which one holds a missing value on
\* both sides and another on one side only, and a finished three-way run with
\* a triple of three missing values
C24_Witness ==
    \/ /\ PairwiseDone
       /\ \E c, d \in PairCells(analysis.coder1, analysis.coder2) :
             /\ PairOf(analysis.coder1, analysis.coder2, c) = <<RawNone, RawNone>>
             /\ PairOf(analysis.coder1, analysis.coder2, d)[1] = RawNone
             /\ PairOf(analysis.coder1, analysis.coder2, d)[2] # RawNone
       /\ analysis.agreements >= 1
       /\ analysis.disagreements >= 1
    \/ /\ HumanDone
       /\ \E c \in ComparedCells : NonMissingCount(TripleOf(c)) = 0
       /\ analysis.all_three_agree >= 1

\* ---------------------------------------------------------------------------
\* C25: range of Gwet's AC1
\* ---------------------------------------------------------------------------

GwetCalled == Called("calculate_gwet_ac1") \/ Called("calculate_gwet_ac1_multi")

\* the raters a Gwet call reads, and the subjects all of them rated
GwetRaters == IF Called("calculate_gwet_ac1") THEN {1, 2} ELSE Raters
GwetSubjects == {i \in Subjects : \A r \in GwetRaters : value_lists[r][i] # None}
GwetCategories == {value_lists[r][i][1] : r \in GwetRaters, i \in GwetSubjects}
GwetCount ==
    [c \in GwetCategories |->
        Cardinality({x \in GwetSubjects \X GwetRaters : value_lists[x[2]][x[1]][1] = c})]
GwetPe == gwet_pe(GwetCount, GwetCategories,
                  Cardinality(GwetSubjects) * Cardinality(GwetRaters))
Unanimous(i) == \A r, s \in GwetRaters : value_lists[r][i] = value_lists[s][i]

\* C25: whenever calculate_gwet_ac1 or calculate_gwet_ac1_multi returns a
\* value, the chance agreement pe lies in (0, 1/2] (so the pe == 1 guard never
\* fires), the result lies in [-1, 1], and the result is 1 exactly when every
\* valid subject is rated identically by all raters.
C25_AC1Range ==
    GwetCalled =>
        /\ (Cardinality(GwetSubjects) >= 2 /\ Cardinality(GwetCategories) >= 2) =>
              /\ QLt(QInt(0), GwetPe)
              /\ QLe(GwetPe, Q(1, 2))
              /\ IsVal(result.out)
        /\ IsVal(result.out) =>
              /\ Cardinality(GwetSubjects) >= 2 /\ Cardinality(GwetCategories) >= 2
              /\ QLe(QInt(0 - 1), result.out)
              /\ QLe(result.out, QInt(1))
              /\ (result.out = QInt(1)) <=> (\A i \in GwetSubjects : Unanimous(i))

\* calls of both functions that return 1 on unanimous subjects, calls that
\* return the lower end -1, and a three-category call with pe below 1/2
C25_Witness ==
    /\ GwetCalled
    /\ IsVal(result.out)
    /\ \/ result.out = QInt(1) /\ Called("calculate_gwet_ac1_multi") /\ Len(value_lists) = 3
       \/ result.out = QInt(1) /\ Called("calculate_gwet_ac1") /\ GwetSubjects # Subjects
       \/ result.out = QInt(0 - 1) /\ GwetPe = Q(1, 2)
       \/ Cardinality(GwetCategories) = 3 /\ QLt(GwetPe, Q(1, 2)) /\ QLt(result.out, QInt(0))

\* ---------------------------------------------------------------------------
\* C26: Fleiss' Kappa and the multi-rater AC1 on the same matrix
\* ---------------------------------------------------------------------------

MatrixCalled == Called("calculate_fleiss_kappa") \/ Called("calculate_gwet_ac1_multi")

\* what the other of the two functions returns on the matrix of the call
OtherMatrixResult ==
    IF Called("calculate_fleiss_kappa")
    THEN calculate_gwet_ac1_multi(matrix_of(value_lists))
    ELSE calculate_fleiss_kappa(matrix_of(value_lists))

\* the pooled share of category c among the complete ratings
PooledShare(c) ==
    Q(Cardinality({x \in CompleteSubjects \X Raters : value_lists[x[2]][x[1]][1] = c}),
      Cardinality(CompleteSubjects) * Cardinality(Raters))

\* the chance agreement of Fleiss' Kappa and of AC1, from the pooled shares
FleissChance == QSumF([c \in CompleteCategories |-> QSq(PooledShare(c))], CompleteCategories)
AC1Chance ==
    QMul(Q(1, Cardinality(CompleteCategories) - 1),
         QSumF([c \in CompleteCategories |->
                   QMul(PooledShare(c), QSub(QInt(1), PooledShare(c)))],
               CompleteCategories))
ChanceOf(fn) == IF fn = "calculate_fleiss_kappa" THEN FleissChance ELSE AC1Chance
OtherMatrixFn ==
    IF Called("calculate_fleiss_kappa") THEN "calculate_gwet_ac1_multi"
    ELSE "calculate_fleiss_kappa"

\* the observed agreement a coefficient x was computed from, given its chance
\* agreement e: x = (P - e) / (1 - e), so P = x * (1 - e) + e
ObservedOf(x, e) == QAdd(QMul(x, QSub(QInt(1), e)), e)

\* the mean over the complete subjects of the share of agreeing rater pairs
MeanPairAgreement ==
    Q(Cardinality({x \in CompleteSubjects \X Raters \X Raters :
                      x[2] # x[3] /\ value_lists[x[2]][x[1]] = value_lists[x[3]][x[1]]}),
      Cardinality(CompleteSubjects) * Cardinality(Raters) * (Cardinality(Raters) - 1))

\* C26: on every ratings matrix calculate_fleiss_kappa and
\* calculate_gwet_ac1_multi are defined together or undefined together, and
\* when both return a value the two values come from the same observed
\* agreement P_bar, the mean share of agreeing rater pairs per complete subject.
C26_SameDefinednessSamePBar ==
    MatrixCalled =>
        /\ IsVal(result.out) <=> IsVal(OtherMatrixResult)
        /\ (result.out = FNone) <=> (OtherMatrixResult = FNone)
        /\ IsVal(result.out) =>
              /\ ObservedOf(result.out, ChanceOf(result.fn))
                    = ObservedOf(OtherMatrixResult, ChanceOf(OtherMatrixFn))
              /\ ObservedOf(result.out, ChanceOf(result.fn)) = MeanPairAgreement

\* a call on a three-rater matrix with a missing entry where the two values
\* differ, and a call on a three-rater matrix where both are undefined although
\* two rows are complete
C26_Witness ==
    /\ MatrixCalled
    /\ Len(value_lists) = 3
    /\ \/ /\ IsVal(result.out)
          /\ CompleteSubjects # Subjects
          /\ result.out # OtherMatrixResult
       \/ /\ result.out = FNone
          /\ Cardinality(CompleteSubjects) >= 2

\* ---------------------------------------------------------------------------
\* C27: n, n_disagreements and agreement of a per-variable record
\* ---------------------------------------------------------------------------

\* the subjects of all three tables that every coder rated on variable x
AllThreeRated(x) ==
    {p \in DOMAIN claude_results \cap DOMAIN chatgpt_results \cap DOMAIN human_results :
        \A c \in 1..3 : ~IsNone(Rating(Tables[c], p, x))}

\* n, n_disagreements and agreement of a record against the number of valid
\* and of matching subjects
CountsConsistent(n, n_disagreements, entries, agreement, n_valid, n_match) ==
    /\ n = n_valid
    /\ n_disagreements = Len(entries)
    /\ n_disagreements = n - n_match
    /\ n > 0 => agreement = Q(n - n_disagreements, n)
    /\ (agreement = FNone) <=> (n = 0)

\* C27: in every per-variable record of compare_coders n is the number of
\* common subjects both coders rated, n_disagreements is the length of the
\* disagreements list and equals n minus the number of matching valid pairs,
\* so agreement = (n - n_disagreements) / n when n > 0 and agreement is Missing
\* exactly when n = 0; the same holds for n, n_disagreements and
\* three_way_agreement in compare_three_way, over the subjects all three rated.
C27_CountsConsistent ==
    /\ \A r \in PairRuns : \A j \in VarIdx :
          LET x == PRIMARY_VARIABLES[j]
              rec == r.summary.variables[j]
              valid == BothRated(r, x)
              match == {p \in valid : Rating(r.t1, p, x) = Rating(r.t2, p, x)}
          IN  CountsConsistent(rec.n, rec.n_disagreements, rec.disagreements, rec.agreement,
                               Cardinality(valid), Cardinality(match))
    /\ ThreeWayDone =>
          \A j \in VarIdx :
              LET x == PRIMARY_VARIABLES[j]
                  rec == analysis.three_way.variables[j]
                  valid == AllThreeRated(x)
                  match == {p \in valid :
                               /\ Rating(Tables[1], p, x) = Rating(Tables[2], p, x)
                               /\ Rating(Tables[2], p, x) = Rating(Tables[3], p, x)}
              IN  CountsConsistent(rec.n, rec.n_disagreements, rec.disagreements,
                                   rec.three_way_agreement,
                                   Cardinality(valid), Cardinality(match))

\* a three-way run with a variable on which a common subject has a missing
\* rating, the rated subjects partly agree, and a pairwise record without a
\* valid pair
C27_Witness ==
    /\ ThreeWayDone
    /\ \E j \in VarIdx :
          /\ analysis.three_way.variables[j].n >= 2
          /\ analysis.three_way.variables[j].n < analysis.three_way.n_platforms
          /\ analysis.three_way.variables[j].n_disagreements >= 1
          /\ analysis.three_way.variables[j].n_disagreements
                < analysis.three_way.variables[j].n
    /\ \E r \in PairRuns : \E j \in VarIdx :
          /\ r.summary.variables[j].n = 0
          /\ r.summary.n_platforms > 0

\* ---------------------------------------------------------------------------
\* C28: the 'variables' lists are aligned with PRIMARY_VARIABLES
\* ---------------------------------------------------------------------------

\* one record per entry of PRIMARY_VARIABLES, in the same order
AlignedWithPrimary(variables) ==
    /\ DOMAIN variables = 1..Len(PRIMARY_VARIABLES)
    /\ \A j \in 1..Len(PRIMARY_VARIABLES) : variables[j].variable = PRIMARY_VARIABLES[j]

\* C28: the 'variables' list of every summary of compare_coders and of the
\* three-way summary of compare_three_way has exactly one record per entry of
\* PRIMARY_VARIABLES, in the same order, whatever the input (also without a
\* common subject), so one index denotes the same variable in the three
\* pairwise summaries and the three-way summary.
C28_VariablesAligned ==
    /\ \A r \in PairRuns :
          /\ AlignedWithPrimary(r.summary.variables)
          /\ r.summary.n_variables = Len(r.summary.variables)
    /\ ThreeWayDone =>
          /\ AlignedWithPrimary(analysis.three_way.variables)
          /\ \A pr \in DOMAIN PAIRS : \A j \in DOMAIN analysis.three_way.variables :
                /\ j \in DOMAIN analysis.pairwise[pr].variables
                /\ analysis.pairwise[pr].variables[j].variable
                      = analysis.three_way.variables[j].variable
                /\ analysis.pairwise[pr].variables[j].type
                      = analysis.three_way.variables[j].type

\* a three-way run without a common subject, and one over coded subjects
C28_Witness ==
    /\ ThreeWayDone
    /\ Len(analysis.three_way.variables) >= 2
    /\ \/ /\ Platforms3 = {}
          /\ analysis.three_way.n_platforms = 0
       \/ /\ \E j \in VarIdx : analysis.three_way.variables[j].n >= 2
          /\ \E j \in VarIdx : analysis.three_way.variables[j].n = 0

\* ---------------------------------------------------------------------------
\* C29: a statistic of value 0 in the printed summary
\* ---------------------------------------------------------------------------

\* each statistic of the summary a finished run printed, next to its text
PrintedPairs ==
    IF analysis.kind = "two_way_run"
    THEN {<<analysis.summary.overall_agreement, analysis.printed.overall_agreement>>,
          <<analysis.summary.mean_kappa, analysis.printed.mean_kappa>>,
          <<analysis.summary.mean_icc, analysis.printed.mean_icc>>}
    ELSE IF analysis.kind = "three_way_run"
    THEN {<<analysis.analysis.three_way.overall_three_way_agreement,
            analysis.printed.overall_agreement>>,
          <<analysis.analysis.three_way.mean_gwet_ac1, analysis.printed.mean_gwet_ac1>>,
          <<analysis.analysis.three_way.mean_kripp_alpha, analysis.printed.mean_kripp_alpha>>,
          <<analysis.analysis.three_way.mean_fleiss_kappa, analysis.printed.mean_kappa>>}
         \cup {<<analysis.analysis.pairwise[pr].overall_agreement,
                 analysis.printed.pairwise[pr].overall_agreement>> : pr \in DOMAIN PAIRS}
         \cup {<<analysis.analysis.pairwise[pr].mean_kappa,
                 analysis.printed.pairwise[pr].mean_kappa>> : pr \in DOMAIN PAIRS}
    ELSE {}

ShownAsZero(t) == t.text \in {"number", "percent"} /\ t.v = 0

\* C29: a statistic whose value is exactly 0 is printed as that value in the
\* summary of run_analysis, never as "N/A" and never left out: an overall
\* agreement of 0, a mean kappa of 0, a mean ICC of 0.
C29_ZeroIsPrinted ==
    RunDone => \A r \in PrintedPairs : r[1] = QInt(0) => ShownAsZero(r[2])

\* a two-way run whose overall agreement 0 or mean kappa 0 is printed as
\* "N/A", and a three-way run that leaves the kappa 0 of a pair out
C29_Witness ==
    \/ /\ analysis.kind = "two_way_run"
       /\ analysis.summary.overall_agreement = QInt(0)
       /\ analysis.printed.overall_agreement = Text("N/A")
    \/ /\ analysis.kind = "two_way_run"
       /\ analysis.summary.mean_kappa = QInt(0)
       /\ analysis.printed.mean_kappa = Text("N/A")
    \/ /\ analysis.kind = "three_way_run"
       /\ \E pr \in DOMAIN PAIRS :
             /\ analysis.analysis.pairwise[pr].mean_kappa = QInt(0)
             /\ analysis.printed.pairwise[pr].mean_kappa = NoLine

\* ---------------------------------------------------------------------------
\* C30: the denominators of the two ICC functions
\* ---------------------------------------------------------------------------

\* the ratings an ICC call reads
ICCRaters == IF Called("calculate_icc") THEN {1, 2} ELSE Raters
ICCSubjects == {i \in Subjects : \A r \in ICCRaters : value_lists[r][i] # None}
ICCConstant == Cardinality({value_lists[r][i] : r \in ICCRaters, i \in ICCSubjects}) = 1

\* the denominator is zero exactly when the guard holds, which is exactly when
\* the ratings are constant; then the result is None, otherwise the
\* denominator is positive and the result is the clamped quotient
DenominatorGuarded(denominator, guard, MS_rows, MS_error) ==
    /\ (denominator = QInt(0)) <=> guard
    /\ guard <=> ICCConstant
    /\ guard => result.out = FNone
    /\ ~guard =>
          /\ QLt(QInt(0), denominator)
          /\ result.out = clamp(QDiv(QSub(MS_rows, MS_error), denominator))

\* C30: neither ICC function can divide by zero: with at least 3 complete
\* subjects the denominator of calculate_icc is zero exactly when its guard
\* MS_rows + MS_error == 0 holds and the denominator of calculate_icc_multi is
\* zero exactly when its guard denom == 0 holds, which is exactly when all
\* complete ratings are one constant value; the result is then Missing, and
\* otherwise the denominator is strictly positive.
C30_DenominatorGuarded ==
    /\ (Called("calculate_icc") /\ Cardinality(ICCSubjects) >= 3) =>
          DenominatorGuarded(
              icc_denominator(value_lists[1], value_lists[2]),
              QAdd(icc_mean_squares(value_lists[1], value_lists[2]).MS_rows,
                   icc_mean_squares(value_lists[1], value_lists[2]).MS_error) = QInt(0),
              icc_mean_squares(value_lists[1], value_lists[2]).MS_rows,
              icc_mean_squares(value_lists[1], value_lists[2]).MS_error)
    /\ (Called("calculate_icc_multi") /\ Cardinality(ICCSubjects) >= 3) =>
          DenominatorGuarded(
              icc_multi_denominator(value_lists),
              icc_multi_denominator(value_lists) = QInt(0),
              icc_multi_mean_squares(value_lists).MS_rows,
              icc_multi_mean_squares(value_lists).MS_error)

\* calls of either function on three complete subjects: constant ratings and
\* no value, and ratings that differ between the raters only, with a value
C30_Witness ==
    /\ Called("calculate_icc") \/ (Called("calculate_icc_multi") /\ Len(value_lists) = 3)
    /\ Cardinality(ICCSubjects) >= 3
    /\ \/ ICCConstant /\ result.out = FNone
       \/ /\ ~ICCConstant
          /\ \A r \in ICCRaters : \A i, j \in ICCSubjects : value_lists[r][i] = value_lists[r][j]
          /\ IsVal(result.out)

====
